---- MODULE Spec2Model ----
(***************************************************************************)
(* Model of the multi-backend resource listing handlers of the VMware      *)
(* Cloud Director MCP server (src/src/server.ts): list_vms, search_vms,    *)
(* list_tasks, list_events, list_datastores and list_catalogs, together    *)
(* with the session check that precedes each of them.                      *)
(*                                                                         *)
(* One tool call is in flight at a time.  Every await of a backend         *)
(* request is one step: the action that consumes the response draws the    *)
(* response from a small set and runs the handler's code up to its next    *)
(* await (or to its return).                                               *)
(***************************************************************************)
EXTENDS Integers, Sequences, FiniteSets, TLC

\* Largest number of records the backend returns over the requests of one call.
MaxTotal == 3

\* Largest number of records in a body whose encoding the handler does not
\* read (a text body for the VM handlers, a JSON body for the XML handlers).
MaxUnread == 1

\* Records answered, in all, to the calls that exist together in a
\* specification that follows two calls (a remembered call and the call in
\* flight, or two calls in flight).
MaxPair == 2

\* The clock, in minutes, stops advancing at MaxNow.
MaxNow == 60

(***************************************************************************)
(* JavaScript values.  A text is a tuple of characters; an undefined       *)
(* field and a field holding a non-string (a number) are two reserved      *)
(* tuples, so that every field value compares with every other.            *)
(***************************************************************************)
Absent == <<"_undefined">>
NonStr == <<"_number">>

IsStr(v) == v # Absent /\ v # NonStr

toLowerCaseChar(c) == IF c = "A" THEN "a" ELSE IF c = "B" THEN "b" ELSE c

toLowerCase(s) == [i \in 1..Len(s) |-> toLowerCaseChar(s[i])]

\* String.prototype.includes: t occurs in s as a contiguous run.
includes(s, t) ==
  \E i \in 0..(Len(s) - Len(t)) : SubSeq(s, i + 1, i + Len(t)) = t

SeqsUpTo(S, k) == UNION {[1..n -> S] : n \in 0..k}

RECURSIVE SelectSeqWhere(_, _)
\* Array.prototype.filter with the predicate given as the set of kept values.
SelectSeqWhere(items, kept) ==
  IF items = <<>> THEN <<>>
  ELSE (IF Head(items) \in kept THEN <<Head(items)>> ELSE <<>>)
         \o SelectSeqWhere(Tail(items), kept)

Range(s) == {s[i] : i \in 1..Len(s)}

(***************************************************************************)
(* VM records.  A record of the legacy query service carries container,    *)
(* containerName and vdcName; a CloudAPI record carries vapp.id, vapp.name *)
(* and vdc.name.  src is a ghost tag naming the source that delivered the  *)
(* record; the handlers never read it.                                     *)
(***************************************************************************)
QueryVm(src, n, st, c, cn, vdc) ==
  [src |-> src, name |-> n, status |-> st, container |-> c,
   containerName |-> cn, vdcName |-> vdc,
   vapp_id |-> Absent, vapp_name |-> Absent, vdc_name |-> Absent]

CloudVm(n, st, vid, vn, vdc) ==
  [src |-> "cloudapi", name |-> n, status |-> st, container |-> Absent,
   containerName |-> Absent, vdcName |-> Absent,
   vapp_id |-> vid, vapp_name |-> vn, vdc_name |-> vdc]

ON == <<"POWERED_ON">>
OFF == <<"POWERED_OFF">>

\* Records the legacy query service may return to list_vms.
ListQueryVms(src) ==
  { QueryVm(src, <<"a">>, ON,     <<"a">>, <<"A", "b">>, Absent),
    QueryVm(src, <<"a">>, OFF,    Absent,  <<"b", "a">>, Absent),
    QueryVm(src, <<"b">>, ON,     Absent,  <<"A", "b">>, Absent),
    QueryVm(src, <<"b">>, Absent, Absent,  Absent,       Absent),
    QueryVm(src, <<"A">>, ON,     Absent,  NonStr,       Absent) }

\* Records the CloudAPI may return to list_vms.
ListCloudVms ==
  { CloudVm(<<"a">>, ON,     <<"a">>, <<"a", "b">>, Absent),
    CloudVm(<<"b">>, OFF,    Absent,  Absent,       Absent),
    CloudVm(<<"A">>, ON,     Absent,  <<"A", "b">>, Absent),
    CloudVm(<<"b">>, Absent, Absent,  NonStr,       Absent) }

\* Records the legacy query service may return to search_vms.
SearchQueryVms(src) ==
  { QueryVm(src, <<"a", "b">>, ON,  Absent, Absent, <<"a">>),
    QueryVm(src, <<"A">>,      ON,  Absent, Absent, <<"b">>),
    QueryVm(src, <<"b">>,      OFF, Absent, Absent, <<"A", "b">>),
    QueryVm(src, Absent,       ON,  Absent, Absent, Absent),
    QueryVm(src, NonStr,       ON,  Absent, Absent, <<"a">>) }

\* Records the legacy query service may return to the vApp query of
\* search_vms (vApps, not VMs).
QueryVapps == { QueryVm("vApp", <<"a">>, ON, Absent, Absent, <<"a">>) }

\* Records the CloudAPI may return to search_vms.
SearchCloudVms ==
  { CloudVm(<<"a", "b">>, ON,  Absent, Absent, <<"A">>),
    CloudVm(<<"A">>,      OFF, Absent, Absent, Absent),
    CloudVm(<<"b">>,      ON,  Absent, Absent, NonStr),
    CloudVm(<<"b">>,      ON,  Absent, Absent, <<"a">>) }

(***************************************************************************)
(* Filter callbacks of list_vms.  A callback either returns a boolean or   *)
(* throws a TypeError (calling includes on a number).                      *)
(***************************************************************************)
\* vm.containerName?.includes(vappId) throws.
ListQueryThrows(vm, vappId) ==
  /\ vappId # Absent
  /\ vm.container # vappId
  /\ vm.containerName = NonStr

ListQueryMatch(vm, vappId, status) ==
  LET vappMatch == \/ vappId = Absent
                   \/ vm.container = vappId
                   \/ (IsStr(vm.containerName) /\ includes(vm.containerName, vappId))
      statusMatch == status = Absent \/ vm.status = status
  IN  vappMatch /\ statusMatch

\* vm.vapp?.name?.includes(vappId) throws.
ListCloudThrows(vm, vappId) ==
  /\ vappId # Absent
  /\ vm.vapp_id # vappId
  /\ vm.vapp_name = NonStr

ListCloudMatch(vm, vappId, status) ==
  LET vappMatch == \/ vappId = Absent
                   \/ vm.vapp_id = vappId
                   \/ (IsStr(vm.vapp_name) /\ includes(vm.vapp_name, vappId))
      statusMatch == status = Absent \/ vm.status = status
  IN  vappMatch /\ statusMatch

(***************************************************************************)
(* Filter callbacks of search_vms.  Both matches are computed before the   *)
(* conjunction, so a number in either tested field throws.                 *)
(***************************************************************************)
SearchQueryThrows(vm, name, vdcName) ==
  \/ (name # Absent /\ vm.name = NonStr)
  \/ (vdcName # Absent /\ vm.vdcName = NonStr)

SearchQueryMatch(vm, name, vdcName) ==
  LET nameMatch == \/ name = Absent
                   \/ (IsStr(vm.name)
                       /\ includes(toLowerCase(vm.name), toLowerCase(name)))
      vdcMatch == \/ vdcName = Absent
                  \/ (IsStr(vm.vdcName)
                      /\ includes(toLowerCase(vm.vdcName), toLowerCase(vdcName)))
  IN  nameMatch /\ vdcMatch

SearchCloudThrows(vm, name, vdcName) ==
  \/ (name # Absent /\ vm.name = NonStr)
  \/ (vdcName # Absent /\ vm.vdc_name = NonStr)

SearchCloudMatch(vm, name, vdcName) ==
  LET nameMatch == \/ name = Absent
                   \/ (IsStr(vm.name)
                       /\ includes(toLowerCase(vm.name), toLowerCase(name)))
      vdcMatch == \/ vdcName = Absent
                  \/ (IsStr(vm.vdc_name)
                      /\ includes(toLowerCase(vm.vdc_name), toLowerCase(vdcName)))
  IN  nameMatch /\ vdcMatch

\* Variant: names are compared ignoring letter case.
findIndexByName_anyCase(self, n) ==
  CHOOSE i \in 1..Len(self) :
    /\ toLowerCase(self[i].name) = toLowerCase(n)
    /\ \A j \in 1..(i - 1) : toLowerCase(self[j].name) # toLowerCase(n)

\* Variant: the last record of a name is the one kept.
findIndexByName_last(self, n) ==
  CHOOSE i \in 1..Len(self) :
    /\ self[i].name = n
    /\ \A j \in (i + 1)..Len(self) : self[j].name # n

\* index === self.findIndex(v => v.name === vm.name)
findIndexByName(self, n) ==
  CHOOSE i \in 1..Len(self) :
    /\ self[i].name = n
    /\ \A j \in 1..(i - 1) : self[j].name # n

\* Variant: the kept records are collected in reverse order.
RECURSIVE KeepAt_reversed(_, _, _)
KeepAt_reversed(self, keep, i) ==
  IF i > Len(self) THEN <<>>
  ELSE KeepAt_reversed(self, keep, i + 1)
         \o (IF keep[i] THEN <<self[i]>> ELSE <<>>)

\* The elements of self whose keep flag is set, in order (Array.filter).
RECURSIVE KeepAt(_, _, _)
KeepAt(self, keep, i) ==
  IF i > Len(self) THEN <<>>
  ELSE (IF keep[i] THEN <<self[i]>> ELSE <<>>) \o KeepAt(self, keep, i + 1)

\* Variant: no duplicate is removed.
uniqueVms_keepAll(vms) == vms

\* allVms.filter((vm, index, self) => index === self.findIndex(...))
uniqueVms(allVms) ==
  KeepAt(allVms,
         [i \in 1..Len(allVms) |-> i = findIndexByName(allVms, allVms[i].name)],
         1)

(***************************************************************************)
(* Timestamps.  A date text that parses is the pair <<"t", minutes>>;      *)
(* Invalid is a text new Date() turns into an Invalid Date.                *)
(***************************************************************************)
T(minutes) == <<"t", minutes>>

Invalid == <<"_invalid date">>

\* if (x) { return new Date(x) >= startTime } return false
atOrAfter(x, startTime) == Len(x) = 2 /\ x[2] >= startTime

(***************************************************************************)
(* Task, event, storage-profile and catalog records.  attrs tells whether  *)
(* the XML element has attributes (record.$ is defined).                   *)
(***************************************************************************)
CloudTask(n, sd, vdc) ==
  [src |-> "cloudapi", attrs |-> TRUE, name |-> n, startDate |-> sd,
   orgVdc_id |-> vdc]

TaskRecord(n, sd, vdc) ==
  [src |-> "task", attrs |-> TRUE, name |-> n, startDate |-> sd,
   vdcName |-> vdc]

NoAttrsTask ==
  [src |-> "task", attrs |-> FALSE, name |-> Absent, startDate |-> Absent,
   vdcName |-> Absent]

CloudTasks ==
  { CloudTask(<<"a">>, T(-30),   <<"a">>),
    CloudTask(<<"b">>, T(-2000), <<"a">>),
    CloudTask(<<"c">>, Absent,   Absent) }

QueryTasks ==
  { TaskRecord(<<"a">>, T(-60),   <<"a", "b">>),
    TaskRecord(<<"b">>, T(-61),   <<"a">>),
    TaskRecord(<<"c">>, T(-30),   Absent),
    TaskRecord(<<"d">>, Absent,   <<"a">>),
    TaskRecord(<<"e">>, Invalid,  <<"a">>),
    NoAttrsTask }

EventRecord(et, ts) == [attrs |-> TRUE, eventType |-> et, timeStamp |-> ts]

QueryEvents ==
  { EventRecord(<<"a">>, T(-60)),
    EventRecord(<<"b">>, T(-61)),
    EventRecord(<<"c">>, T(-30)),
    EventRecord(<<"d">>, Absent),
    EventRecord(<<"e">>, Invalid),
    [attrs |-> FALSE, eventType |-> Absent, timeStamp |-> Absent] }

ProfileRecord(n, vdc, en) ==
  [attrs |-> TRUE, name |-> n, vdcName |-> vdc, isEnabled |-> en]

QueryProfiles ==
  { ProfileRecord(<<"a">>, <<"a">>, <<"true">>),
    ProfileRecord(<<"b">>, <<"b">>, <<"false">>),
    ProfileRecord(<<"c">>, Absent,  Absent),
    [attrs |-> FALSE, name |-> Absent, vdcName |-> Absent,
     isEnabled |-> Absent] }

CatalogRecord(n, pub) == [attrs |-> TRUE, name |-> n, isPublished |-> pub]

QueryCatalogs ==
  { CatalogRecord(<<"a">>, <<"true">>),
    CatalogRecord(<<"b">>, Absent),
    [attrs |-> FALSE, name |-> Absent, isPublished |-> Absent] }

\* The body of GET /cloudapi/1.0.0/vdcs/{vdcId}.
VdcBodies == {[name |-> <<"a">>], [name |-> <<"b">>]}

(***************************************************************************)
(* Numeric attribute texts.  Num(k) is the decimal text of k,              *)
(* NumThenText(k) the digits of k followed by other characters, NotANumber *)
(* a text that starts with no digit.  A quantity computed from them is a   *)
(* number or NaN.                                                          *)
(***************************************************************************)
Num(k) == <<"n", k>>

NumThenText(k) == <<"n", k, "x">>

NotANumber == <<"abc">>

NaN == [nan |-> TRUE, value |-> 0]

Number(k) == [nan |-> FALSE, value |-> k]

\* parseInt(text || '0')
parseIntOrZero(text) ==
  IF text = Absent THEN Number(0)
  ELSE IF Len(text) >= 2 THEN Number(text[2])
  ELSE NaN

\* sum + x
plus(sum, x) ==
  IF sum.nan \/ x.nan THEN NaN ELSE Number(sum.value + x.value)

\* Storage-profile records as read by get_resource_metrics.
MetricsProfile(vdc, limit, used) ==
  [attrs |-> TRUE, vdcName |-> vdc, storageLimitMB |-> limit,
   storageUsedMB |-> used]

MetricsProfiles ==
  { MetricsProfile(<<"a">>, Num(2),     Num(1)),
    MetricsProfile(<<"a">>, Num(3),     Absent),
    MetricsProfile(<<"a">>, NotANumber, Num(1)),
    MetricsProfile(<<"a">>, Num(1),     NumThenText(2)),
    MetricsProfile(<<"b">>, Num(5),     Num(5)),
    [attrs |-> FALSE, vdcName |-> Absent, storageLimitMB |-> Absent,
     storageUsedMB |-> Absent] }

\* Edge gateways (or, for list_ip_allocations, networks) of a VDC.
Gateways == {[id |-> "g1", name |-> <<"a">>], [id |-> "g2", name |-> <<"b">>]}

\* Items of a detail answer: firewall rules, NAT rules, DHCP pools or
\* allocated addresses.
DetailItems == {[name |-> <<"r">>]}

\* Records of the organisation-level lists (orgs, vdcs, networks, edges).
OrgItems == {[name |-> <<"a">>]}

\* parsed.QueryResultRecords.XRecord.map(record => ({ ... record.$.name ... }))
\* throws when an element has no attributes.
mapThrows(recs) == \E i \in 1..Len(recs) : ~recs[i].attrs

(***************************************************************************)
(* State.                                                                  *)
(***************************************************************************)
VARIABLES
  session,        \* this.session: the stored session, or none
  authHeader,     \* vcdClient.defaults.headers.common['Authorization']
  now,            \* the clock read by new Date() / Date.now(), in minutes
  pc,             \* position of the tool call in flight
  tool,           \* request.params.name
  args,           \* request.params.arguments
  step,           \* number of the backend request the handler awaits
  allVms,         \* allVms of handleListVms / handleSearchVms
  searchResults,  \* searchResults of handleListVms / handleSearchVms
  results,        \* results / storageProfiles held across an await
  requests,       \* ghost: the backend requests sent by this call, in order
  resps,          \* ghost: the backend responses received by this call
  result,         \* what the call handed back to its caller
  prev,           \* ghost: an earlier list_vms / search_vms call, remembered
  other           \* a second tool call, in flight beside the first

vars == <<session, authHeader, now, pc, tool, args, step, allVms,
          searchResults, results, requests, resps, result, prev, other>>

\* expires: new Date(Date.now() + 30 * 60 * 1000), in minutes.
SessionTTL == 30

Tokens == {"tok"}

NoSession == [set |-> FALSE, token |-> "", expires |-> 0]

NoHeader == <<>>

NoArgs == [vappId |-> Absent, status |-> Absent, name |-> Absent,
           vdcName |-> Absent, vdcId |-> Absent, hours |-> 0]

NoResult == [kind |-> "none", code |-> "", prefix |-> "", message |-> "",
             records |-> <<>>, outcomes |-> <<>>]

Returned(records, outcomes) ==
  [kind |-> "ok", code |-> "", prefix |-> "", message |-> "",
   records |-> records, outcomes |-> outcomes]

\* new Error(message): an error that is not an McpError.
Error(message) ==
  [kind |-> "error", code |-> "none", prefix |-> "", message |-> message,
   records |-> <<>>, outcomes |-> <<>>]

\* new McpError(code, message)
McpError(code, message) ==
  [kind |-> "error", code |-> code, prefix |-> "", message |-> message,
   records |-> <<>>, outcomes |-> <<>>]

\* Variant: the dispatcher wraps every error, McpErrors included.
toolCatch_wrapAll(error) ==
  [McpError("InternalError", error.message)
     EXCEPT !.prefix = "Tool execution failed: "]

\* The catch block of the dispatcher: an McpError is rethrown as it is, any
\* other error as McpError(InternalError, 'Tool execution failed: ' + message).
toolCatch(error) ==
  IF error.code # "none" THEN error
  ELSE [McpError("InternalError", error.message)
          EXCEPT !.prefix = "Tool execution failed: "]

\* throw new Error(message) in a handler, rethrown by the dispatcher as an
\* McpError.
Thrown(message) == toolCatch(Error(message))

(***************************************************************************)
(* Backend responses.  A request is rejected (with an HTTP status, or      *)
(* with no response at all: "error"), or answered with a JSON body holding *)
(* a record list, or answered with a text (XML) body.                      *)
(***************************************************************************)
FailStatus == {"403", "error"}

Rejected(status) == [kind |-> "fail", status |-> status, recs |-> <<>>]

JsonBody(recs) == [kind |-> "json", status |-> "200", recs |-> recs]

TextBody(recs) == [kind |-> "text", status |-> "200", recs |-> recs]

RECURSIVE TotalRecs(_)
TotalRecs(rs) ==
  IF rs = <<>> THEN 0 ELSE Len(Head(rs).recs) + TotalRecs(Tail(rs))

\* No earlier call is remembered.
NoPrev ==
  [mode |-> "off", tool |-> "none", args |-> NoArgs, resps |-> <<>>,
   result |-> NoResult]

\* The first list_vms / search_vms call that returns will be remembered.
Watching == [NoPrev EXCEPT !.mode = "watch"]

\* The remembered call: its tool, arguments, responses and result.
Kept(t, a, rs, res) ==
  [mode |-> "kept", tool |-> t, args |-> a, resps |-> rs, result |-> res]

\* The second call, as a record of its position and of the locals of its
\* handler; NoOther when the specification has a single call in flight.
NoOther ==
  [pc |-> "off", args |-> NoArgs, step |-> 0, allVms |-> <<>>,
   searchResults |-> <<>>, resps |-> <<>>, result |-> NoResult]

OtherIdle == [NoOther EXCEPT !.pc = "idle"]

\* One call at a time and no call remembered: the full set of answers.
SingleCall == prev.mode = "off" /\ other.pc = "off"

\* The call in flight repeats the remembered call.
Repeats == prev.mode = "kept" /\ tool = prev.tool /\ args = prev.args

\* The number of records the backend may still answer to a call that has
\* received the responses received.
Room(received) ==
  IF SingleCall THEN MaxTotal - TotalRecs(received)
  ELSE MaxPair - TotalRecs(prev.resps) - TotalRecs(other.resps)
         - TotalRecs(resps)

\* The handler never looks into a body of the encoding it does not read
\* (response.data.record of a text, typeof response.data of an object): one
\* record stands for the records of such a body.
UnreadRecs(recset) == {CHOOSE r \in recset : TRUE}

\* What the backend may answer when it draws its records from recset, to a
\* handler that reads bodies of the encoding reads ("json" or "text").  The
\* backend is unchanged since the remembered call: a call that repeats it
\* gets the answers it got.  Where two calls are followed, a request is
\* rejected with a status or answered in the encoding the handler reads.
Responses(recset, received, reads) ==
  LET room == Room(received)
      unread == IF room < MaxUnread THEN room ELSE MaxUnread
      jsonRecs == IF reads = "json" THEN recset ELSE UnreadRecs(recset)
      textRecs == IF reads = "text" THEN recset ELSE UnreadRecs(recset)
  IN  IF Repeats THEN {prev.resps[Len(received) + 1]}
      ELSE IF ~SingleCall
      THEN {Rejected("403")}
             \cup {IF reads = "json" THEN JsonBody(b) ELSE TextBody(b) :
                     b \in SeqsUpTo(recset, room)}
      ELSE {Rejected(st) : st \in FailStatus}
             \cup {JsonBody(b) :
                     b \in SeqsUpTo(jsonRecs,
                                    IF reads = "json" THEN room ELSE unread)}
             \cup {TextBody(b) :
                     b \in SeqsUpTo(textRecs,
                                    IF reads = "text" THEN room ELSE unread)}

\* response.data.record || []  and  response.data.values || []
itemsOf(response) == IF response.kind = "json" THEN response.recs ELSE <<>>

(***************************************************************************)
(* Entries of searchResults.                                               *)
(***************************************************************************)
ItemsEntry(description, n) ==
  [src |-> description, kind |-> "items", n |-> n, status |-> ""]

\* Variant: the failure entry drops the status of the response.
FailedEntry_noStatus(description, status) ==
  [src |-> description, kind |-> "Failed", n |-> 0, status |-> "error"]

FailedEntry(description, status) ==
  [src |-> description, kind |-> "Failed", n |-> 0, status |-> status]

ListQueryTypes ==
  << [type |-> "vm", description |-> "Standard VM query"],
     [type |-> "adminVM", description |-> "Admin VM query"] >>

SearchQueryTypes ==
  << [type |-> "vm", description |-> "Standard VM query"],
     [type |-> "adminVM", description |-> "Admin VM query"],
     [type |-> "vApp", description |-> "vApp query (for VMs in vApps)"] >>

CloudApiDescription == "CloudAPI VMs"

\* Variant: the records of a source are collected without being filtered.
tryQuery_unfiltered(response, description, throwing, kept, collect) ==
  IF response.kind = "fail"
  THEN [entries |-> <<FailedEntry(description, response.status)>>,
        vms |-> <<>>]
  ELSE LET items == itemsOf(response)
       IN  [entries |-> <<ItemsEntry(description, Len(items))>>,
            vms |-> IF collect THEN items ELSE <<>>]

\* Variant: a rejected request leaves no entry in searchResults.
tryQuery_silent(response, description, throwing, kept, collect) ==
  IF response.kind = "fail"
  THEN [entries |-> <<>>, vms |-> <<>>]
  ELSE [entries |-> <<ItemsEntry(description, Len(itemsOf(response)))>>,
        vms |-> IF collect THEN SelectSeqWhere(itemsOf(response), kept)
                ELSE <<>>]

(***************************************************************************)
(* One pass of a try block of handleListVms / handleSearchVms: given the   *)
(* response, the description of the source, the set of records on which    *)
(* the filter callback throws and the set it keeps, returns the entries    *)
(* appended to searchResults and the records appended to allVms.           *)
(***************************************************************************)
tryQuery(response, description, throwing, kept, collect) ==
  IF response.kind = "fail"
  THEN [entries |-> <<FailedEntry(description, response.status)>>,
        vms |-> <<>>]
  ELSE LET items == itemsOf(response)
       IN  IF collect /\ \E i \in 1..Len(items) : items[i] \in throwing
           THEN [entries |-> <<ItemsEntry(description, Len(items)),
                               FailedEntry(description, "error")>>,
                 vms |-> <<>>]
           ELSE [entries |-> <<ItemsEntry(description, Len(items))>>,
                 vms |-> IF collect THEN SelectSeqWhere(items, kept)
                         ELSE <<>>]

(***************************************************************************)
(* Initial state: the server has been constructed, no session, no call.    *)
(***************************************************************************)
Init ==
  /\ session = NoSession
  /\ authHeader = NoHeader
  /\ now = 0
  /\ pc = "idle"
  /\ tool = "none"
  /\ args = NoArgs
  /\ step = 0
  /\ allVms = <<>>
  /\ searchResults = <<>>
  /\ results = <<>>
  /\ requests = <<>>
  /\ resps = <<>>
  /\ result = NoResult
  /\ prev = NoPrev
  /\ other = NoOther

VappIds == {Absent, <<"a">>}
Statuses == {Absent, ON}
NameArgs == {Absent, <<"a">>}
VdcNameArgs == {Absent, <<"A">>}
VdcIds == {Absent, <<"a">>}
\* hours: 0 stands for an omitted argument (hours || 24).
Hours == {0, 1}

\* The arguments a caller may pass to each tool.
ArgsOf(t) ==
  CASE t = "list_vms" ->
         {[NoArgs EXCEPT !.vappId = v, !.status = s] :
            v \in VappIds, s \in Statuses}
    [] t = "search_vms" ->
         {[NoArgs EXCEPT !.name = n, !.vdcName = v] :
            n \in NameArgs, v \in VdcNameArgs}
    [] t = "list_tasks" ->
         {[NoArgs EXCEPT !.vdcId = v, !.hours = h] :
            v \in VdcIds, h \in Hours}
    [] t = "list_events" ->
         {[NoArgs EXCEPT !.vdcId = v, !.hours = h] :
            v \in VdcIds, h \in Hours}
    [] t = "list_datastores" -> {[NoArgs EXCEPT !.vdcId = v] : v \in VdcIds}
    [] t = "get_resource_metrics" ->
         {[NoArgs EXCEPT !.vdcId = v] : v \in VdcIds}
    [] t \in {"list_firewall_rules", "list_nat_rules", "list_dhcp_pools",
              "list_ip_allocations"} ->
         {[NoArgs EXCEPT !.vdcId = v] : v \in VdcIds}
    [] OTHER -> {NoArgs}

\* The tools of the dispatcher's switch that are modelled.
KnownTools == {"list_vms", "search_vms", "list_tasks", "list_events",
               "list_datastores", "list_catalogs", "get_resource_metrics",
               "list_firewall_rules", "list_nat_rules", "list_dhcp_pools",
               "list_ip_allocations", "vcd_login", "health_check"}

\* The tools that ask for the details of every edge gateway or network of
\* a VDC.
DetailTools == {"list_firewall_rules", "list_nat_rules", "list_dhcp_pools",
                "list_ip_allocations"}

\* A name that is no case of the switch.
UnknownTool == "no_such_tool"

Tools == {"list_vms", "search_vms", "list_tasks", "list_events",
          "list_datastores", "list_catalogs", "get_resource_metrics",
          "list_firewall_rules", "list_nat_rules", "list_dhcp_pools",
          "list_ip_allocations", UnknownTool}

(***************************************************************************)
(* Backend requests.                                                       *)
(***************************************************************************)
SessionsRequest == "POST /cloudapi/1.0.0/sessions"

QueryRequest(type) == [t \in {type} |->
  CASE type = "vm" -> "GET /api/query?type=vm"
    [] type = "adminVM" -> "GET /api/query?type=adminVM"
    [] type = "vApp" -> "GET /api/query?type=vApp"
    [] type = "task" -> "GET /api/query?type=task"
    [] type = "event" -> "GET /api/query?type=event"
    [] type = "orgVdcStorageProfile" -> "GET /api/query?type=orgVdcStorageProfile"
    [] type = "catalog" -> "GET /api/query?type=catalog"][type]

CloudVmsRequest == "GET /cloudapi/1.0.0/vms"

CloudTasksRequest == "GET /cloudapi/1.0.0/tasks"

VdcRequest == "GET /cloudapi/1.0.0/vdcs/{vdcId}"

EdgeGatewaysRequest == "GET /cloudapi/1.0.0/edgeGateways?filter=orgVdc.id=={vdcId}"

NetworksRequest == "GET /cloudapi/1.0.0/orgVdcNetworks?filter=orgVdc.id=={vdcId}"

LegacyEdgeRequest == "GET /api/query?type=edgeGateway&filter=vdc=={vdcId}"

\* The detail request of each tool for the gateway or network with an id.
DetailRequests ==
  [list_firewall_rules |->
     [g1 |-> "GET /cloudapi/1.0.0/edgeGateways/g1/firewall/rules",
      g2 |-> "GET /cloudapi/1.0.0/edgeGateways/g2/firewall/rules"],
   list_nat_rules |->
     [g1 |-> "GET /cloudapi/1.0.0/edgeGateways/g1/nat/rules",
      g2 |-> "GET /cloudapi/1.0.0/edgeGateways/g2/nat/rules"],
   list_dhcp_pools |->
     [g1 |-> "GET /cloudapi/1.0.0/edgeGateways/g1/dhcp",
      g2 |-> "GET /cloudapi/1.0.0/edgeGateways/g2/dhcp"],
   list_ip_allocations |->
     [g1 |-> "GET /cloudapi/1.0.0/orgVdcNetworks/g1/allocatedIpAddresses",
      g2 |-> "GET /cloudapi/1.0.0/orgVdcNetworks/g2/allocatedIpAddresses"]]

DetailRequest(t, edge) == DetailRequests[t][edge.id]

\* The message of the error thrown by each of these handlers.
DetailFailure ==
  [list_firewall_rules |-> "Failed to list firewall rules",
   list_nat_rules |-> "Failed to list NAT rules",
   list_dhcp_pools |-> "Failed to list DHCP pools",
   list_ip_allocations |-> "Failed to list IP allocations"]

\* The requests of the organisation-level branch of get_resource_metrics.
OrgMetricsRequests ==
  <<"GET /cloudapi/1.0.0/orgs", "GET /cloudapi/1.0.0/vdcs",
    "GET /cloudapi/1.0.0/orgVdcNetworks", "GET /cloudapi/1.0.0/edgeGateways">>

\* Variant: every handler starts with the CloudAPI VM request.
firstRequest_cloud(t, a) == CloudVmsRequest

\* The first backend request each handler sends after ensureAuthenticated().
firstRequest(t, a) ==
  CASE t = "list_vms" -> QueryRequest(ListQueryTypes[1].type)
    [] t = "search_vms" -> QueryRequest(SearchQueryTypes[1].type)
    [] t = "list_tasks" -> CloudTasksRequest
    [] t = "list_events" -> QueryRequest("event")
    [] t = "list_datastores" -> QueryRequest("orgVdcStorageProfile")
    [] t = "list_catalogs" -> QueryRequest("catalog")
    [] t = "get_resource_metrics" ->
         IF a.vdcId # Absent THEN VdcRequest ELSE OrgMetricsRequests[1]
    [] t = "list_ip_allocations" -> NetworksRequest
    [] t \in {"list_firewall_rules", "list_nat_rules", "list_dhcp_pools"} ->
         EdgeGatewaysRequest

\* The requests sent on entering the handler: none by a handler that first
\* throws 'VDC ID is required'.
entryRequests(t, a) ==
  IF t \in DetailTools /\ a.vdcId = Absent THEN <<>>
  ELSE <<firstRequest(t, a)>>

\* if (!this.session || this.session.expires <= new Date())
needsAuthentication == ~session.set \/ session.expires <= now

\* Variant: ensureAuthenticated looks only at whether a session is stored.
authenticatesOnEntry_noExpiry(t) == t = "vcd_login" \/ ~session.set

\* Whether the call starts with a sessions request: handleLogin calls
\* authenticate() itself, every other handler ensureAuthenticated().
authenticatesOnEntry(t) == t = "vcd_login" \/ needsAuthentication

\* The answers to POST /cloudapi/1.0.0/sessions.
AuthOk(tok) == [kind |-> "ok", token |-> tok]

AuthRejected == [kind |-> "fail", token |-> ""]

\* Variant: a failed authentication drops the stored session.
authenticate_dropping(response) ==
  IF response.kind = "ok"
  THEN [session |-> [set |-> TRUE, token |-> response.token,
                     expires |-> now + SessionTTL],
        authHeader |-> <<"Bearer", response.token>>,
        error |-> ""]
  ELSE [session |-> NoSession, authHeader |-> NoHeader,
        error |-> "Authentication failed"]

\* Variant: the default header is set by the first authentication only.
authenticate_headerOnce(response) ==
  IF response.kind = "ok"
  THEN [session |-> [set |-> TRUE, token |-> response.token,
                     expires |-> now + SessionTTL],
        authHeader |-> IF authHeader = NoHeader
                       THEN <<"Bearer", response.token>> ELSE authHeader,
        error |-> ""]
  ELSE [session |-> session, authHeader |-> authHeader,
        error |-> "Authentication failed"]

\* authenticate(): the session and the default Authorization header after
\* the sessions request has been answered, and the message of the error
\* thrown ("" when none is).
authenticate(response) ==
  IF response.kind = "ok"
  THEN [session |-> [set |-> TRUE, token |-> response.token,
                     expires |-> now + SessionTTL],
        authHeader |-> <<"Bearer", response.token>>,
        error |-> ""]
  ELSE [session |-> session, authHeader |-> authHeader,
        error |-> "Authentication failed"]

\* The text returned by handleLogin.
LoginText == [text |-> "Successfully authenticated with VMware Cloud Director"]

\* The text returned by health_check when ensureAuthenticated() returns.
HealthOk(s) ==
  [text |-> "VMware Cloud Director connection: OK", expires |-> s.expires]

\* Variant: health_check lets the error of ensureAuthenticated() through.
healthCheckCatch_rethrow(message) == Thrown(message)

\* The inner catch of health_check: the error becomes a text.
healthCheckCatch(message) ==
  Returned(<<[text |-> "Health check failed", message |-> message]>>, <<>>)

\* Variant: allVms is a list of the server object, never emptied.
freshVms_kept == allVms

\* const allVms: any[] = []: each call of the handler has its own list.
freshVms == <<>>

\* Variant: searchResults is a list of the server object, never emptied.
freshSearchResults_kept == searchResults

\* const searchResults: string[] = []: each call has its own list.
freshSearchResults == <<>>

\* A tool call arrives: the dispatcher enters the handler, which first
\* awaits ensureAuthenticated().
Invoke(t, a) ==
  /\ pc = "idle"
  /\ tool' = t
  /\ args' = a
  /\ step' = 1
  /\ allVms' = freshVms
  /\ searchResults' = freshSearchResults
  /\ results' = <<>>
  /\ resps' = <<>>
  /\ IF t \notin KnownTools
     THEN /\ result' = toolCatch(McpError("MethodNotFound", "Unknown tool"))
          /\ pc' = "done"
          /\ requests' = <<>>
     ELSE IF authenticatesOnEntry(t)
     THEN /\ result' = NoResult
          /\ pc' = "auth"
          /\ requests' = <<SessionsRequest>>
     ELSE IF t = "health_check"
     THEN /\ result' = Returned(<<HealthOk(session)>>, <<>>)
          /\ pc' = "done"
          /\ requests' = <<>>
     ELSE /\ result' = NoResult
          /\ pc' = "run"
          /\ requests' = entryRequests(t, a)
  /\ UNCHANGED <<session, authHeader, now, prev, other>>

\* POST /cloudapi/1.0.0/sessions answered: the session is stored and the
\* default Authorization header set.
AuthenticateOk(tok) ==
  /\ pc = "auth"
  /\ LET done == authenticate(AuthOk(tok))
     IN  /\ session' = done.session
         /\ authHeader' = done.authHeader
         /\ IF tool = "vcd_login"
            THEN /\ result' = Returned(<<LoginText>>, <<>>)
                 /\ pc' = "done"
                 /\ UNCHANGED requests
            ELSE IF tool = "health_check"
            THEN /\ result' = Returned(<<HealthOk(done.session)>>, <<>>)
                 /\ pc' = "done"
                 /\ UNCHANGED requests
            ELSE /\ pc' = "run"
                 /\ requests' = requests \o entryRequests(tool, args)
                 /\ UNCHANGED result
  /\ UNCHANGED <<now, tool, args, step, allVms, searchResults, results, resps,
                 prev, other>>

\* POST /cloudapi/1.0.0/sessions rejected: authenticate throws, the handler
\* throws, the dispatcher wraps the error.
AuthenticateFail ==
  /\ pc = "auth"
  /\ LET done == authenticate(AuthRejected)
     IN  /\ session' = done.session
         /\ authHeader' = done.authHeader
         /\ result' = IF tool = "health_check"
                      THEN healthCheckCatch(done.error)
                      ELSE Thrown(done.error)
  /\ pc' = "done"
  /\ UNCHANGED <<now, tool, args, step, allVms, searchResults, results,
                 requests, resps, prev, other>>

\* The result (or the McpError) has been sent to the caller; the call's
\* locals are discarded.  The first list_vms / search_vms call that returns
\* a result is remembered where the specification watches for one.
Return ==
  /\ pc = "done"
  /\ pc' = "idle"
  /\ tool' = "none"
  /\ args' = NoArgs
  /\ step' = 0
  /\ allVms' = freshVms
  /\ searchResults' = freshSearchResults
  /\ results' = <<>>
  /\ requests' = <<>>
  /\ resps' = <<>>
  /\ result' = NoResult
  /\ prev' = IF /\ prev.mode = "watch"
                /\ tool \in {"list_vms", "search_vms"}
                /\ result.kind = "ok"
             THEN Kept(tool, args, resps, result)
             ELSE prev
  /\ UNCHANGED <<session, authHeader, now, other>>

(***************************************************************************)
(* list_vms                                                                *)
(***************************************************************************)
\* One iteration of the loop over queryTypes: the response to
\* GET /api/query?type=vm or adminVM arrives.
ListVmsQuery ==
  /\ pc = "run" /\ tool = "list_vms" /\ step \in 1..Len(ListQueryTypes)
  /\ LET queryType == ListQueryTypes[step]
         recset == ListQueryVms(queryType.type)
     IN  \E response \in Responses(recset, resps, "json") :
           LET out == tryQuery(response, queryType.description,
                         {vm \in recset : ListQueryThrows(vm, args.vappId)},
                         {vm \in recset :
                            ListQueryMatch(vm, args.vappId, args.status)},
                         TRUE)
           IN  /\ searchResults' = searchResults \o out.entries
               /\ allVms' = allVms \o out.vms
               /\ resps' = Append(resps, response)
  /\ requests' = Append(requests,
                        IF step < Len(ListQueryTypes)
                        THEN QueryRequest(ListQueryTypes[step + 1].type)
                        ELSE CloudVmsRequest)
  /\ step' = step + 1
  /\ UNCHANGED <<session, authHeader, now, pc, tool, args, results, result,
                 prev, other>>

\* The response to GET /cloudapi/1.0.0/vms arrives; the handler removes the
\* duplicates and returns.
ListVmsCloudApi ==
  /\ pc = "run" /\ tool = "list_vms" /\ step = Len(ListQueryTypes) + 1
  /\ \E response \in Responses(ListCloudVms, resps, "json") :
       LET out == tryQuery(response, CloudApiDescription,
                     {vm \in ListCloudVms : ListCloudThrows(vm, args.vappId)},
                     {vm \in ListCloudVms :
                        ListCloudMatch(vm, args.vappId, args.status)},
                     TRUE)
       IN  /\ searchResults' = searchResults \o out.entries
           /\ allVms' = allVms \o out.vms
           /\ resps' = Append(resps, response)
  /\ result' = Returned(uniqueVms(allVms'), searchResults')
  /\ step' = step + 1
  /\ pc' = "done"
  /\ UNCHANGED <<session, authHeader, now, tool, args, results, requests,
                 prev, other>>

(***************************************************************************)
(* search_vms                                                              *)
(***************************************************************************)
\* One iteration of the loop over queryTypes: the response to
\* GET /api/query?type=vm, adminVM or vApp arrives.  The records of the
\* vApp query are counted but never collected.
SearchVmsQuery ==
  /\ pc = "run" /\ tool = "search_vms" /\ step \in 1..Len(SearchQueryTypes)
  /\ LET queryType == SearchQueryTypes[step]
         recset == IF queryType.type = "vApp" THEN QueryVapps
                   ELSE SearchQueryVms(queryType.type)
     IN  \E response \in Responses(recset, resps, "json") :
           LET out == tryQuery(response, queryType.description,
                         {vm \in recset :
                            SearchQueryThrows(vm, args.name, args.vdcName)},
                         {vm \in recset :
                            SearchQueryMatch(vm, args.name, args.vdcName)},
                         queryType.type \in {"vm", "adminVM"})
           IN  /\ searchResults' = searchResults \o out.entries
               /\ allVms' = allVms \o out.vms
               /\ resps' = Append(resps, response)
  /\ requests' = Append(requests,
                        IF step < Len(SearchQueryTypes)
                        THEN QueryRequest(SearchQueryTypes[step + 1].type)
                        ELSE CloudVmsRequest)
  /\ step' = step + 1
  /\ UNCHANGED <<session, authHeader, now, pc, tool, args, results, result,
                 prev, other>>

SearchVmsCloudApi ==
  /\ pc = "run" /\ tool = "search_vms" /\ step = Len(SearchQueryTypes) + 1
  /\ \E response \in Responses(SearchCloudVms, resps, "json") :
       LET out == tryQuery(response, CloudApiDescription,
                     {vm \in SearchCloudVms :
                        SearchCloudThrows(vm, args.name, args.vdcName)},
                     {vm \in SearchCloudVms :
                        SearchCloudMatch(vm, args.name, args.vdcName)},
                     TRUE)
       IN  /\ searchResults' = searchResults \o out.entries
           /\ allVms' = allVms \o out.vms
           /\ resps' = Append(resps, response)
  /\ result' = Returned(uniqueVms(allVms'), searchResults')
  /\ step' = step + 1
  /\ pc' = "done"
  /\ UNCHANGED <<session, authHeader, now, tool, args, results, requests,
                 prev, other>>

(***************************************************************************)
(* list_tasks                                                              *)
(***************************************************************************)
lookbackHours(hours) == IF hours = 0 THEN 24 ELSE hours

\* new Date(Date.now() - lookbackHours * 60 * 60 * 1000), in minutes.
startTimeOf(hours) == now - lookbackHours(hours) * 60

normalizeTask(record) ==
  [src |-> record.src, name |-> record.name, startTime |-> record.startDate,
   vdcName |-> record.vdcName]

\* The two filters applied to the parsed legacy task records.
legacyTaskKept(task, startTime, vdcId) ==
  /\ atOrAfter(task.startTime, startTime)
  /\ \/ vdcId = Absent
     \/ (task.vdcName # Absent /\ includes(task.vdcName, vdcId))

\* tasks of the legacy branch, and whether the XML could not be mapped.
legacyTasks(response, startTime, vdcId) ==
  IF response.kind # "text" \/ mapThrows(response.recs) THEN <<>>
  ELSE LET mapped == [i \in 1..Len(response.recs) |->
                        normalizeTask(response.recs[i])]
       IN  SelectSeqWhere(mapped,
             {t \in Range(mapped) : legacyTaskKept(t, startTime, vdcId)})

\* Variant: the legacy query is sent whatever the CloudAPI answered.
cloudApiTasksFailed_always(response) == TRUE

\* The catch of the CloudAPI try block is entered.
cloudApiTasksFailed(response) == response.kind = "fail"

ParseFailedEntry ==
  [src |-> "Legacy API", kind |-> "ParseFailed", n |-> 0, status |-> ""]

\* The response to GET /cloudapi/1.0.0/tasks arrives.  On success the tasks
\* are listed as received and the handler returns; on failure the handler
\* goes on to the legacy query.
ListTasksCloudApi ==
  /\ pc = "run" /\ tool = "list_tasks" /\ step = 1
  /\ \E response \in Responses(CloudTasks, resps, "json") :
       /\ resps' = Append(resps, response)
       /\ IF cloudApiTasksFailed(response)
          THEN /\ results' = <<FailedEntry("CloudAPI tasks query",
                                           response.status)>>
               /\ requests' = Append(requests, QueryRequest("task"))
               /\ UNCHANGED <<pc, result>>
          ELSE LET tasks == itemsOf(response)
               IN  /\ results' = <<ItemsEntry("CloudAPI Tasks", Len(tasks))>>
                   /\ result' = Returned(tasks, results')
                   /\ pc' = "done"
                   /\ UNCHANGED requests
  /\ step' = step + 1
  /\ UNCHANGED <<session, authHeader, now, tool, args, allVms, searchResults,
                 prev, other>>

\* The response to GET /api/query?type=task arrives; the handler returns.
ListTasksLegacy ==
  /\ pc = "run" /\ tool = "list_tasks" /\ step = 2
  /\ \E response \in Responses(QueryTasks, resps, "text") :
       /\ resps' = Append(resps, response)
       /\ IF response.kind = "fail"
          THEN /\ results' = Append(results,
                                FailedEntry("Legacy API tasks query",
                                            response.status))
               /\ result' = Returned(<<>>, results')
          ELSE LET tasks == legacyTasks(response, startTimeOf(args.hours),
                                        args.vdcId)
                   failed == response.kind = "text" /\ mapThrows(response.recs)
               IN  /\ results' = results
                                   \o (IF failed THEN <<ParseFailedEntry>>
                                       ELSE <<>>)
                                   \o <<ItemsEntry("Legacy API Tasks",
                                                   Len(tasks))>>
                   /\ result' = Returned(tasks, results')
  /\ step' = step + 1
  /\ pc' = "done"
  /\ UNCHANGED <<session, authHeader, now, tool, args, allVms, searchResults,
                 requests, prev, other>>

(***************************************************************************)
(* list_events                                                             *)
(***************************************************************************)
normalizeEvent(record) ==
  [eventType |-> record.eventType, timeStamp |-> record.timeStamp]

NotAvailableEntry ==
  [src |-> "Events API", kind |-> "NotAvailable", n |-> 0, status |-> ""]

\* The response to GET /api/query?type=event arrives; the handler returns.
\* A rejected request and an element without attributes both end in the
\* inner catch.  The vdcId argument is never read.
ListEventsQuery ==
  /\ pc = "run" /\ tool = "list_events" /\ step = 1
  /\ \E response \in Responses(QueryEvents, resps, "text") :
       /\ resps' = Append(resps, response)
       /\ IF \/ response.kind = "fail"
             \/ (response.kind = "text" /\ mapThrows(response.recs))
          THEN result' = Returned(<<>>, <<NotAvailableEntry>>)
          ELSE IF response.kind # "text"
          THEN result' = Returned(<<>>, <<>>)
          ELSE LET mapped == [i \in 1..Len(response.recs) |->
                                normalizeEvent(response.recs[i])]
                   events == SelectSeqWhere(mapped,
                               {e \in Range(mapped) :
                                  atOrAfter(e.timeStamp,
                                            startTimeOf(args.hours))})
               IN  result' = Returned(events, <<>>)
  /\ step' = step + 1
  /\ pc' = "done"
  /\ UNCHANGED <<session, authHeader, now, tool, args, allVms, searchResults,
                 results, requests, prev, other>>

(***************************************************************************)
(* list_datastores                                                         *)
(***************************************************************************)
normalizeProfile(record) ==
  [name |-> record.name, enabled |-> record.isEnabled = <<"true">>,
   vdcName |-> record.vdcName]

\* storageProfiles after the parse block (a parse failure is only logged).
storageProfilesOf(response) ==
  IF response.kind # "text" \/ mapThrows(response.recs) THEN <<>>
  ELSE [i \in 1..Len(response.recs) |-> normalizeProfile(response.recs[i])]

\* The response to GET /api/query?type=orgVdcStorageProfile arrives.
\* Without a vdcId the handler returns; with one it requests the VDC.
ListDatastoresQuery ==
  /\ pc = "run" /\ tool = "list_datastores" /\ step = 1
  /\ \E response \in Responses(QueryProfiles, resps, "text") :
       /\ resps' = Append(resps, response)
       /\ IF response.kind = "fail"
          THEN /\ result' = Thrown("Failed to list datastores")
               /\ pc' = "done"
               /\ UNCHANGED <<results, requests>>
          ELSE IF args.vdcId = Absent
          THEN /\ result' = Returned(storageProfilesOf(response), <<>>)
               /\ pc' = "done"
               /\ UNCHANGED <<results, requests>>
          ELSE /\ results' = storageProfilesOf(response)
               /\ requests' = Append(requests, VdcRequest)
               /\ UNCHANGED <<pc, result>>
  /\ step' = step + 1
  /\ UNCHANGED <<session, authHeader, now, tool, args, allVms, searchResults,
                 prev, other>>

\* The response to GET /cloudapi/1.0.0/vdcs/{vdcId} arrives; the handler
\* keeps the profiles of the VDC of that name and returns.
ListDatastoresVdc ==
  /\ pc = "run" /\ tool = "list_datastores" /\ step = 2
  /\ \E response \in {Rejected(st) : st \in FailStatus}
                        \cup {JsonBody(<<b>>) : b \in VdcBodies} :
       /\ resps' = Append(resps, response)
       /\ IF response.kind = "fail"
          THEN result' = Thrown("Failed to list datastores")
          ELSE LET vdcName == response.recs[1].name
               IN  result' = Returned(
                     SelectSeqWhere(results,
                       {pr \in Range(results) : pr.vdcName = vdcName}),
                     <<>>)
  /\ step' = step + 1
  /\ pc' = "done"
  /\ UNCHANGED <<session, authHeader, now, tool, args, allVms, searchResults,
                 results, requests, prev, other>>

(***************************************************************************)
(* list_catalogs                                                           *)
(***************************************************************************)
normalizeCatalog(record) ==
  [name |-> record.name, isPublished |-> record.isPublished = <<"true">>]

\* The response to GET /api/query?type=catalog arrives; the handler returns.
ListCatalogsQuery ==
  /\ pc = "run" /\ tool = "list_catalogs" /\ step = 1
  /\ \E response \in Responses(QueryCatalogs, resps, "text") :
       /\ resps' = Append(resps, response)
       /\ IF response.kind = "fail"
          THEN result' = Thrown("Failed to list catalogs")
          ELSE IF response.kind # "text" \/ mapThrows(response.recs)
          THEN result' = Returned(<<>>, <<>>)
          ELSE result' = Returned(
                 [i \in 1..Len(response.recs) |->
                    normalizeCatalog(response.recs[i])], <<>>)
  /\ step' = step + 1
  /\ pc' = "done"
  /\ UNCHANGED <<session, authHeader, now, tool, args, allVms, searchResults,
                 results, requests, prev, other>>

(***************************************************************************)
(* get_resource_metrics                                                    *)
(***************************************************************************)
\* The storage profiles of the VDC named vdcName (a parse failure or an
\* element without attributes is only logged and leaves the list empty).
metricsProfilesOf(response, vdcName) ==
  IF response.kind # "text" \/ mapThrows(response.recs) THEN <<>>
  ELSE SelectSeqWhere(response.recs,
         {pr \in Range(response.recs) : pr.vdcName = vdcName})

\* storageProfiles.reduce((sum, profile) => sum + parseInt(... || '0'), 0)
RECURSIVE totalStorageOf(_)
totalStorageOf(profiles) ==
  IF profiles = <<>> THEN Number(0)
  ELSE plus(totalStorageOf(SubSeq(profiles, 1, Len(profiles) - 1)),
            parseIntOrZero(profiles[Len(profiles)].storageLimitMB))

RECURSIVE usedStorageOf(_)
usedStorageOf(profiles) ==
  IF profiles = <<>> THEN Number(0)
  ELSE plus(usedStorageOf(SubSeq(profiles, 1, Len(profiles) - 1)),
            parseIntOrZero(profiles[Len(profiles)].storageUsedMB))

\* With a vdcId: the response to GET /cloudapi/1.0.0/vdcs/{vdcId} arrives.
ResourceMetricsVdc ==
  /\ pc = "run" /\ tool = "get_resource_metrics" /\ args.vdcId # Absent
  /\ step = 1
  /\ \E response \in {Rejected(st) : st \in FailStatus}
                        \cup {JsonBody(<<b>>) : b \in VdcBodies} :
       /\ resps' = Append(resps, response)
       /\ IF response.kind = "fail"
          THEN /\ result' = Thrown("Failed to get resource metrics")
               /\ pc' = "done"
               /\ UNCHANGED requests
          ELSE /\ requests' = Append(requests,
                                     QueryRequest("orgVdcStorageProfile"))
               /\ UNCHANGED <<pc, result>>
  /\ step' = step + 1
  /\ UNCHANGED <<session, authHeader, now, tool, args, allVms, searchResults,
                 results, prev, other>>

\* With a vdcId: the response to GET /api/query?type=orgVdcStorageProfile
\* arrives; the handler sums the storage of the profiles of the VDC and
\* returns.
ResourceMetricsStorage ==
  /\ pc = "run" /\ tool = "get_resource_metrics" /\ args.vdcId # Absent
  /\ step = 2
  /\ \E response \in Responses(MetricsProfiles, <<>>, "text") :
       /\ resps' = Append(resps, response)
       /\ IF response.kind = "fail"
          THEN result' = Thrown("Failed to get resource metrics")
          ELSE LET storageProfiles ==
                     metricsProfilesOf(response, resps[1].recs[1].name)
               IN  result' = Returned(
                     <<[profiles |-> Len(storageProfiles),
                        totalStorage |-> totalStorageOf(storageProfiles),
                        usedStorage |-> usedStorageOf(storageProfiles)]>>,
                     <<>>)
  /\ step' = step + 1
  /\ pc' = "done"
  /\ UNCHANGED <<session, authHeader, now, tool, args, allVms, searchResults,
                 results, requests, prev, other>>

\* Without a vdcId: the response to one of the four organisation-level
\* requests arrives.  A rejected request ends the call with an error; so
\* does, after the last response, an empty list of organisations
\* (org.name of undefined).
ResourceMetricsOrg ==
  /\ pc = "run" /\ tool = "get_resource_metrics" /\ args.vdcId = Absent
  /\ step \in 1..Len(OrgMetricsRequests)
  /\ \E response \in Responses(OrgItems, resps, "json") :
       /\ resps' = Append(resps, response)
       /\ IF response.kind = "fail"
          THEN /\ result' = Thrown("Failed to get resource metrics")
               /\ pc' = "done"
               /\ UNCHANGED requests
          ELSE IF step < Len(OrgMetricsRequests)
          THEN /\ requests' = Append(requests, OrgMetricsRequests[step + 1])
               /\ UNCHANGED <<pc, result>>
          ELSE /\ result' =
                    IF itemsOf(resps'[1]) = <<>>
                    THEN Thrown("Failed to get resource metrics")
                    ELSE Returned(
                           <<[vdcs |-> Len(itemsOf(resps'[2])),
                              networks |-> Len(itemsOf(resps'[3])),
                              edgeGateways |-> Len(itemsOf(resps'[4]))]>>,
                           <<>>)
               /\ pc' = "done"
               /\ UNCHANGED requests
  /\ step' = step + 1
  /\ UNCHANGED <<session, authHeader, now, tool, args, allVms, searchResults,
                 results, prev, other>>

(***************************************************************************)
(* list_firewall_rules, list_nat_rules, list_dhcp_pools,                   *)
(* list_ip_allocations.  The lines pushed to results are kept as records.  *)
(***************************************************************************)
ReportLine(kind, name, n, status) ==
  [kind |-> kind, name |-> name, n |-> n, status |-> status]

\* Variant: the catch of the detail request pushes the line of an answered
\* request without items.
detailLines_silent(t, edge, response) ==
  IF response.kind = "fail"
  THEN <<ReportLine("details", edge.name, 0, "")>>
  ELSE <<ReportLine("details", edge.name, Len(itemsOf(response)), "")>>

\* The lines pushed for one gateway or network once its detail request has
\* been answered or has failed; only list_firewall_rules puts the status in
\* the line of a failure.
detailLines(t, edge, response) ==
  IF response.kind = "fail"
  THEN <<ReportLine("failed", edge.name, 0,
                    IF t = "list_firewall_rules" THEN response.status
                    ELSE "")>>
  ELSE <<ReportLine("details", edge.name, Len(itemsOf(response)), "")>>

\* if (!vdcId) throw new Error('VDC ID is required')
DetailMissingVdc ==
  /\ pc = "run" /\ tool \in DetailTools /\ args.vdcId = Absent /\ step = 1
  /\ result' = Thrown(DetailFailure[tool])
  /\ pc' = "done"
  /\ step' = step + 1
  /\ UNCHANGED <<session, authHeader, now, tool, args, allVms, searchResults,
                 results, requests, resps, prev, other>>

\* The first query, for the edge gateways or networks of the VDC, is
\* answered.  A failure ends the call with an error, except in
\* list_firewall_rules, which turns to the legacy query; without gateways
\* the call returns at once.
DetailFirstQuery ==
  /\ pc = "run" /\ tool \in DetailTools /\ args.vdcId # Absent /\ step = 1
  /\ \E response \in Responses(Gateways, resps, "json") :
       LET edgeGateways == itemsOf(response)
           found == IF tool = "list_firewall_rules"
                    THEN <<ReportLine("found", Absent, Len(edgeGateways), "")>>
                    ELSE <<>>
       IN  /\ resps' = Append(resps, response)
           /\ IF response.kind = "fail" /\ tool = "list_firewall_rules"
              THEN /\ results' = <<ReportLine("cloudapi failed", Absent, 0, "")>>
                   /\ requests' = Append(requests, LegacyEdgeRequest)
                   /\ UNCHANGED <<pc, result>>
              ELSE IF response.kind = "fail"
              THEN /\ result' = Thrown(DetailFailure[tool])
                   /\ pc' = "done"
                   /\ UNCHANGED <<results, requests>>
              ELSE IF edgeGateways = <<>>
              THEN /\ result' =
                        IF tool = "list_firewall_rules"
                        THEN Returned(<<>>,
                               <<ReportLine("no gateways", Absent, 0, "")>>)
                        ELSE Returned(<<>>, <<>>)
                   /\ pc' = "done"
                   /\ results' = found
                   /\ UNCHANGED requests
              ELSE /\ results' = found
                   /\ requests' = Append(requests,
                                     DetailRequest(tool, edgeGateways[1]))
                   /\ UNCHANGED <<pc, result>>
  /\ step' = step + 1
  /\ UNCHANGED <<session, authHeader, now, tool, args, allVms, searchResults,
                 prev, other>>

\* One iteration of the loop over the gateways or networks: the detail
\* request of one of them is answered or fails, and the next one is sent;
\* after the last the call returns the lines.
DetailQuery ==
  /\ pc = "run" /\ tool \in DetailTools /\ step >= 2
  /\ resps[1].kind # "fail"
  /\ LET edgeGateways == itemsOf(resps[1])
         edge == edgeGateways[step - 1]
     IN  \E response \in Responses(DetailItems, resps, "json") :
           LET lines == results \o detailLines(tool, edge, response)
           IN  /\ resps' = Append(resps, response)
               /\ results' = lines
               /\ IF step - 1 < Len(edgeGateways)
                  THEN /\ requests' = Append(requests,
                                         DetailRequest(tool,
                                                       edgeGateways[step]))
                       /\ UNCHANGED <<pc, result>>
                  ELSE /\ result' = Returned(<<>>, lines)
                       /\ pc' = "done"
                       /\ UNCHANGED requests
  /\ step' = step + 1
  /\ UNCHANGED <<session, authHeader, now, tool, args, allVms, searchResults,
                 prev, other>>

\* list_firewall_rules after a failed first query: the legacy edge gateway
\* query is answered or fails; the call returns the lines either way.
FirewallLegacy ==
  /\ pc = "run" /\ tool = "list_firewall_rules" /\ step = 2
  /\ resps[1].kind = "fail"
  /\ \E response \in Responses(Gateways, resps, "json") :
       LET lines ==
             results \o
               IF response.kind = "fail"
               THEN <<ReportLine("legacy failed", Absent, 0, response.status)>>
               ELSE <<ReportLine("legacy found", Absent,
                                 Len(itemsOf(response)), "")>>
                    \o [i \in 1..Len(itemsOf(response)) |->
                          ReportLine("legacy edge", itemsOf(response)[i].name,
                                     0, "")]
       IN  /\ resps' = Append(resps, response)
           /\ results' = lines
           /\ result' = Returned(<<>>, lines)
  /\ pc' = "done"
  /\ step' = step + 1
  /\ UNCHANGED <<session, authHeader, now, tool, args, allVms, searchResults,
                 requests, prev, other>>

Next ==
  \/ \E t \in Tools : \E a \in ArgsOf(t) : Invoke(t, a)
  \/ \E tok \in Tokens : AuthenticateOk(tok)
  \/ AuthenticateFail
  \/ Return
  \/ ListVmsQuery
  \/ ListVmsCloudApi
  \/ SearchVmsQuery
  \/ SearchVmsCloudApi
  \/ ListTasksCloudApi
  \/ ListTasksLegacy
  \/ ListEventsQuery
  \/ ListDatastoresQuery
  \/ ListDatastoresVdc
  \/ ListCatalogsQuery
  \/ ResourceMetricsVdc
  \/ ResourceMetricsStorage
  \/ ResourceMetricsOrg
  \/ DetailMissingVdc
  \/ DetailFirstQuery
  \/ DetailQuery
  \/ FirewallLegacy

Spec == Init /\ [][Next]_vars

(***************************************************************************)
(* Two runs of one call.  The first list_vms / search_vms call that        *)
(* returns is remembered; any calls follow, and a later call with the same *)
(* tool and arguments gets from the unchanged backend the answers the      *)
(* remembered call got.                                                    *)
(***************************************************************************)
InitRepeat ==
  /\ session = NoSession
  /\ authHeader = NoHeader
  /\ now = 0
  /\ pc = "idle"
  /\ tool = "none"
  /\ args = NoArgs
  /\ step = 0
  /\ allVms = <<>>
  /\ searchResults = <<>>
  /\ results = <<>>
  /\ requests = <<>>
  /\ resps = <<>>
  /\ result = NoResult
  /\ prev = Watching
  /\ other = NoOther

RepeatTools == {"list_vms", "search_vms", "list_catalogs"}

\* The arguments of the calls followed: any until a call is remembered;
\* after that those of the remembered call, or none.
RepeatArgs(t) ==
  IF prev.mode = "kept"
  THEN {NoArgs} \cup (IF t = prev.tool THEN {prev.args} ELSE {})
  ELSE ArgsOf(t)

NextRepeat ==
  \/ \E t \in RepeatTools : \E a \in RepeatArgs(t) : Invoke(t, a)
  \/ \E tok \in Tokens : AuthenticateOk(tok)
  \/ AuthenticateFail
  \/ Return
  \/ ListVmsQuery
  \/ ListVmsCloudApi
  \/ SearchVmsQuery
  \/ SearchVmsCloudApi
  \/ ListCatalogsQuery

SpecRepeat == InitRepeat /\ [][NextRepeat]_vars

(***************************************************************************)
(* Two calls in flight.  Beside the list_vms / search_vms call of the      *)
(* variables above a second call, of list_vms, runs handleListVms with its *)
(* own locals (the fields of other); the two calls share this.session and  *)
(* the default Authorization header, and their steps interleave at every   *)
(* await.                                                                  *)
(***************************************************************************)
InitPair ==
  /\ session = NoSession
  /\ authHeader = NoHeader
  /\ now = 0
  /\ pc = "idle"
  /\ tool = "none"
  /\ args = NoArgs
  /\ step = 0
  /\ allVms = <<>>
  /\ searchResults = <<>>
  /\ results = <<>>
  /\ requests = <<>>
  /\ resps = <<>>
  /\ result = NoResult
  /\ prev = NoPrev
  /\ other = OtherIdle

CallVars == <<pc, tool, args, step, allVms, searchResults, results, requests,
              resps, result, prev>>

\* The second call arrives and awaits ensureAuthenticated().
OtherInvoke(a) ==
  /\ other.pc = "idle"
  /\ other' = [pc |-> IF authenticatesOnEntry("list_vms") THEN "auth"
                      ELSE "run",
               args |-> a, step |-> 1, allVms |-> freshVms,
               searchResults |-> freshSearchResults, resps |-> <<>>,
               result |-> NoResult]
  /\ UNCHANGED <<session, authHeader, now, CallVars>>

\* The sessions request of the second call is answered.
OtherAuthenticateOk(tok) ==
  /\ other.pc = "auth"
  /\ LET done == authenticate(AuthOk(tok))
     IN  /\ session' = done.session
         /\ authHeader' = done.authHeader
  /\ other' = [other EXCEPT !.pc = "run"]
  /\ UNCHANGED <<now, CallVars>>

\* The sessions request of the second call is rejected.
OtherAuthenticateFail ==
  /\ other.pc = "auth"
  /\ LET done == authenticate(AuthRejected)
     IN  /\ session' = done.session
         /\ authHeader' = done.authHeader
         /\ other' = [other EXCEPT !.pc = "done",
                                   !.result = Thrown(done.error)]
  /\ UNCHANGED <<now, CallVars>>

\* What the backend may answer to the second call: every request of that
\* call is answered with a body.
OtherResponses(recset) ==
  {r \in Responses(recset, other.resps, "json") : r.kind # "fail"}

\* One iteration of the loop over queryTypes in the second call.
OtherListVmsQuery ==
  /\ other.pc = "run" /\ other.step \in 1..Len(ListQueryTypes)
  /\ LET queryType == ListQueryTypes[other.step]
         recset == ListQueryVms(queryType.type)
     IN  \E response \in OtherResponses(recset) :
           LET out == tryQuery(response, queryType.description,
                         {vm \in recset :
                            ListQueryThrows(vm, other.args.vappId)},
                         {vm \in recset :
                            ListQueryMatch(vm, other.args.vappId,
                                           other.args.status)},
                         TRUE)
           IN  other' = [other EXCEPT
                           !.searchResults = @ \o out.entries,
                           !.allVms = @ \o out.vms,
                           !.resps = Append(@, response),
                           !.step = @ + 1]
  /\ UNCHANGED <<session, authHeader, now, CallVars>>

\* The CloudAPI answers the second call, which removes the duplicates and
\* returns.
OtherListVmsCloudApi ==
  /\ other.pc = "run" /\ other.step = Len(ListQueryTypes) + 1
  /\ \E response \in OtherResponses(ListCloudVms) :
       LET out == tryQuery(response, CloudApiDescription,
                     {vm \in ListCloudVms :
                        ListCloudThrows(vm, other.args.vappId)},
                     {vm \in ListCloudVms :
                        ListCloudMatch(vm, other.args.vappId,
                                       other.args.status)},
                     TRUE)
       IN  other' = [other EXCEPT
                       !.searchResults = @ \o out.entries,
                       !.allVms = @ \o out.vms,
                       !.resps = Append(@, response),
                       !.step = @ + 1,
                       !.pc = "done",
                       !.result = Returned(uniqueVms(other.allVms \o out.vms),
                                           other.searchResults
                                             \o out.entries)]
  /\ UNCHANGED <<session, authHeader, now, CallVars>>

\* The result of the second call has been sent to its caller.
OtherReturn ==
  /\ other.pc = "done"
  /\ other' = OtherIdle
  /\ UNCHANGED <<session, authHeader, now, CallVars>>

PairTools == {"list_vms", "search_vms"}

\* The arguments of the second call: list_vms without a filter.
OtherArgs == {NoArgs}

NextPair ==
  \/ \E t \in PairTools : \E a \in ArgsOf(t) : Invoke(t, a)
  \/ \E tok \in Tokens : AuthenticateOk(tok)
  \/ AuthenticateFail
  \/ Return
  \/ ListVmsQuery
  \/ ListVmsCloudApi
  \/ SearchVmsQuery
  \/ SearchVmsCloudApi
  \/ \E a \in OtherArgs : OtherInvoke(a)
  \/ \E tok \in Tokens : OtherAuthenticateOk(tok)
  \/ OtherAuthenticateFail
  \/ OtherListVmsQuery
  \/ OtherListVmsCloudApi
  \/ OtherReturn

SpecPair == InitPair /\ [][NextPair]_vars

(***************************************************************************)
(* The session over time.  The clock advances, so that a stored session    *)
(* expires; the backend hands out different tokens; a call of vcd_login,   *)
(* health_check, list_catalogs or of a name that is no tool runs beside a  *)
(* second call, of list_vms, and their steps interleave at every await.    *)
(***************************************************************************)
\* Time passes: half the lifetime of a session.
Tick ==
  /\ now < MaxNow
  /\ now' = now + SessionTTL \div 2
  /\ UNCHANGED <<session, authHeader, CallVars, other>>

SessionTokens == {"tok", "tok2"}

SessionTools == {"vcd_login", "health_check", "list_catalogs", UnknownTool}

NextSession ==
  \/ \E t \in SessionTools : \E a \in ArgsOf(t) : Invoke(t, a)
  \/ \E tok \in SessionTokens : AuthenticateOk(tok)
  \/ AuthenticateFail
  \/ Return
  \/ ListCatalogsQuery
  \/ \E a \in OtherArgs : OtherInvoke(a)
  \/ \E tok \in SessionTokens : OtherAuthenticateOk(tok)
  \/ OtherAuthenticateFail
  \/ OtherListVmsQuery
  \/ OtherListVmsCloudApi
  \/ OtherReturn
  \/ Tick

SpecSession == InitPair /\ [][NextSession]_vars

(***************************************************************************)
(* Properties.                                                             *)
(***************************************************************************)
Done == pc = "done"

VmTool == tool \in {"list_vms", "search_vms"}

\* The handler got past ensureAuthenticated().
Entered == result.message # "Authentication failed"

\* The sources of the VM tool in flight, in invocation order.
Descriptions ==
  LET qt == IF tool = "list_vms" THEN ListQueryTypes ELSE SearchQueryTypes
  IN  [i \in 1..(Len(qt) + 1) |->
         IF i <= Len(qt) THEN qt[i].description ELSE CloudApiDescription]

\* Source i of the VM tool in flight adds its records to allVms.
Collects(i) == ~(tool = "search_vms" /\ i = 3)

\* The entries of the outcome list that name source d.
EntriesOf(outcomes, d) ==
  SelectSeqWhere(outcomes, {e \in Range(outcomes) : e.src = d})

\* The filter of the VM tool in flight accepts record vm.
PassesFilter(vm) ==
  CASE tool = "list_vms" /\ vm.src # "cloudapi" ->
         ListQueryMatch(vm, args.vappId, args.status)
    [] tool = "list_vms" /\ vm.src = "cloudapi" ->
         ListCloudMatch(vm, args.vappId, args.status)
    [] tool = "search_vms" /\ vm.src # "cloudapi" ->
         SearchQueryMatch(vm, args.name, args.vdcName)
    [] tool = "search_vms" /\ vm.src = "cloudapi" ->
         SearchCloudMatch(vm, args.name, args.vdcName)

HasName(records, n) == \E k \in 1..Len(records) : records[k].name = n

\* The requests sent by the handler itself, after ensureAuthenticated().
HandlerRequests ==
  IF requests # <<>> /\ Head(requests) = SessionsRequest
  THEN Tail(requests) ELSE requests

\* C1: in list_vms and search_vms, when one source fails and another
\* answers, the call returns a result whose merged list holds (by name)
\* every record of the answering source that passes the filter, and whose
\* outcome list holds exactly one failure entry for the failed source and
\* exactly one success entry for the answering one.
C1_PartialFailure ==
  (Done /\ VmTool /\ Entered) =>
    \A i, j \in 1..Len(resps) :
      (resps[i].kind = "fail" /\ resps[j].kind # "fail") =>
        /\ result.kind = "ok"
        /\ Collects(j) =>
             \A r \in Range(itemsOf(resps[j])) :
               PassesFilter(r) => HasName(result.records, r.name)
        /\ EntriesOf(result.outcomes, Descriptions[i])
             = <<FailedEntry(Descriptions[i], resps[i].status)>>
        /\ EntriesOf(result.outcomes, Descriptions[j])
             = <<ItemsEntry(Descriptions[j], Len(itemsOf(resps[j])))>>

\* C2: no two records of the merged list returned by list_vms or
\* search_vms have the same name.
C2_UniqueNames ==
  (Done /\ VmTool /\ result.kind = "ok") =>
    \A i, j \in 1..Len(result.records) :
      i # j => result.records[i].name # result.records[j].name

\* A VM call has returned after removing at least one duplicate and
\* keeping at least two records.
C2_Witness ==
  /\ Done /\ VmTool /\ result.kind = "ok"
  /\ Len(result.records) >= 2
  /\ Len(result.records) < Len(allVms)

\* A legacy query source and the CloudAPI both added a record named n to
\* the concatenated list.
BothReport(n) ==
  /\ \E a \in Range(allVms) : a.src # "cloudapi" /\ a.name = n
  /\ \E b \in Range(allVms) : b.src = "cloudapi" /\ b.name = n

\* C3 as stated: when a legacy query source and the CloudAPI both
\* contribute a record of the same name, the merged list keeps the
\* CloudAPI version.
C3_ModernWins ==
  (Done /\ VmTool /\ result.kind = "ok") =>
    \A k \in 1..Len(result.records) :
      BothReport(result.records[k].name) =>
        result.records[k].src = "cloudapi"

\* C3 amended: when a legacy query source and the CloudAPI both contribute
\* a record of the same name, the merged list keeps the version of the
\* legacy query source that comes first in invocation order (Standard VM
\* query, then Admin VM query); the CloudAPI, queried last, never wins.
C3_FirstSourceWins ==
  (Done /\ VmTool /\ result.kind = "ok") =>
    \A k \in 1..Len(result.records) :
      BothReport(result.records[k].name) =>
        /\ result.records[k].src # "cloudapi"
        /\ (\E a \in Range(allVms) :
              a.src = "vm" /\ a.name = result.records[k].name)
             => result.records[k].src = "vm"

\* A VM call has returned and a name was contributed by the Admin VM query
\* and by the CloudAPI.
C3_Witness ==
  /\ Done /\ VmTool /\ result.kind = "ok"
  /\ \E a, b \in Range(allVms) :
       a.src = "adminVM" /\ b.src = "cloudapi" /\ a.name = b.name

\* C4: after list_vms or search_vms the outcome list holds exactly one
\* entry per source attempted, in invocation order, whatever each source
\* returned and whether or not its records could be filtered.
C4_OneOutcomePerSource ==
  (Done /\ VmTool /\ result.kind = "ok") =>
    /\ Len(result.outcomes) = Len(Descriptions)
    /\ \A i \in 1..Len(result.outcomes) :
         result.outcomes[i].src = Descriptions[i]

\* The sources of each multi-source tool, in the fixed order.
AllRequests ==
  CASE tool = "list_vms" ->
         <<QueryRequest("vm"), QueryRequest("adminVM"), CloudVmsRequest>>
    [] tool = "search_vms" ->
         <<QueryRequest("vm"), QueryRequest("adminVM"), QueryRequest("vApp"),
           CloudVmsRequest>>
    [] tool = "list_tasks" -> <<CloudTasksRequest, QueryRequest("task")>>

C6_FailureIsDiagnostic ==
  (Done /\ Entered /\ \E i \in 1..Len(resps) : resps[i].kind = "fail") =>
    /\ result.kind = "ok"
    /\ \E k \in 1..Len(result.outcomes) :
         result.outcomes[k].kind \in {"Failed", "NotAvailable"}

\* Every source of the VM tool in flight rejected its request.
AllSourcesFailed ==
  /\ Len(resps) = Len(Descriptions)
  /\ \A i \in 1..Len(resps) : resps[i].kind = "fail"

\* C7: when every VM source fails, list_vms and search_vms return an
\* empty record list together with one failure outcome per source.
C7_AllFailedStillReturns ==
  (Done /\ VmTool /\ Entered /\ AllSourcesFailed) =>
    result = Returned(<<>>,
               [i \in 1..Len(Descriptions) |->
                  FailedEntry(Descriptions[i], resps[i].status)])

\* A VM call has returned after every one of its sources failed, not all
\* with the same cause.
C7_Witness ==
  /\ Done /\ VmTool /\ Entered /\ AllSourcesFailed
  /\ \E i, j \in 1..Len(resps) : resps[i].status # resps[j].status

\* C8: whenever at least one backend query of a listing tool was answered,
\* the call returns a result instead of failing.
C8_OneAnswerSuffices ==
  (Done /\ Entered /\ \E i \in 1..Len(resps) : resps[i].kind # "fail") =>
    result.kind = "ok"

\* Record r of the result lacks a field tested by a predicate of the call.
LacksTestedField(r) ==
  CASE tool = "list_vms" ->
         \/ /\ args.vappId # Absent
            /\ r.container = Absent /\ r.containerName = Absent
            /\ r.vapp_id = Absent /\ r.vapp_name = Absent
         \/ args.status # Absent /\ r.status = Absent
    [] tool = "search_vms" ->
         \/ args.name # Absent /\ r.name = Absent
         \/ /\ args.vdcName # Absent
            /\ r.vdcName = Absent /\ r.vdc_name = Absent
    [] tool = "list_tasks" /\ r.src = "cloudapi" ->
         \/ r.startDate = Absent
         \/ args.vdcId # Absent /\ r.orgVdc_id = Absent
    [] tool = "list_tasks" /\ r.src # "cloudapi" ->
         \/ r.startTime = Absent
         \/ args.vdcId # Absent /\ r.vdcName = Absent
    [] tool = "list_events" -> r.timeStamp = Absent

\* C9: in list_vms, search_vms, list_tasks and list_events no record of the
\* output lacks the field tested by an active predicate (name, container or
\* VDC, status, timestamp), whichever source produced it.
C9_FailClosed ==
  (Done /\ result.kind = "ok"
        /\ tool \in {"list_vms", "search_vms", "list_tasks", "list_events"}) =>
    \A k \in 1..Len(result.records) : ~LacksTestedField(result.records[k])

\* field contains text, ignoring letter case.
ContainsIgnoringCase(field, text) ==
  IsStr(field) /\ includes(toLowerCase(field), toLowerCase(text))

\* The filter as the claim describes it.
ClaimedMatch(vm) ==
  IF tool = "list_vms"
  THEN /\ \/ args.vappId = Absent
          \/ ContainsIgnoringCase(vm.container, args.vappId)
          \/ ContainsIgnoringCase(vm.containerName, args.vappId)
          \/ ContainsIgnoringCase(vm.vapp_id, args.vappId)
          \/ ContainsIgnoringCase(vm.vapp_name, args.vappId)
       /\ (args.status = Absent \/ vm.status = args.status)
  ELSE /\ \/ args.name = Absent
          \/ ContainsIgnoringCase(vm.name, args.name)
       /\ \/ args.vdcName = Absent
          \/ ContainsIgnoringCase(vm.vdcName, args.vdcName)
          \/ ContainsIgnoringCase(vm.vdc_name, args.vdcName)

\* C10: in list_vms and search_vms a record of any source is kept exactly
\* when its name and container (vApp or VDC) contain the filter texts
\* ignoring letter case and its status equals the filter value.
C10_FilterSemantics ==
  (Done /\ VmTool /\ result.kind = "ok") =>
    \A j \in 1..Len(resps) :
      Collects(j) =>
        \A r \in Range(itemsOf(resps[j])) :
          (r \in Range(allVms)) <=> ClaimedMatch(r)

\* The timestamp the time-window predicate of the tool in flight tests.
timestampOf(r) ==
  CASE tool = "list_tasks" /\ r.src = "cloudapi" -> r.startDate
    [] tool = "list_tasks" /\ r.src # "cloudapi" -> r.startTime
    [] tool = "list_events" -> r.timeStamp

\* C11: every task returned by list_tasks and every event returned by
\* list_events has a timestamp at or after the call time minus the look-back
\* hours, whichever source produced it.
C11_WithinLookback ==
  (Done /\ result.kind = "ok" /\ tool \in {"list_tasks", "list_events"}) =>
    \A k \in 1..Len(result.records) :
      atOrAfter(timestampOf(result.records[k]), startTimeOf(args.hours))

\* The legacy text batch of the call in flight, once received.
LegacyBatch == resps[Len(resps)]

\* The legacy batch of the call in flight has been received as text.
HasLegacyBatch ==
  /\ \/ tool \in {"list_events", "list_catalogs"} /\ Len(resps) = 1
     \/ tool = "list_datastores" /\ args.vdcId = Absent /\ Len(resps) = 1
     \/ tool = "list_tasks" /\ Len(resps) = 2
  /\ LegacyBatch.kind = "text"

\* The normalized form of raw record r of the tool in flight.
NormalizedBy(r) ==
  CASE tool = "list_tasks" -> normalizeTask(r)
    [] tool = "list_events" -> normalizeEvent(r)
    [] tool = "list_datastores" -> normalizeProfile(r)
    [] tool = "list_catalogs" -> normalizeCatalog(r)

\* The filters of the tool in flight keep raw record r.
KeptAfterNormalizing(r) ==
  CASE tool = "list_tasks" ->
         legacyTaskKept(normalizeTask(r), startTimeOf(args.hours), args.vdcId)
    [] tool = "list_events" ->
         atOrAfter(r.timeStamp, startTimeOf(args.hours))
    [] OTHER -> TRUE

\* C12: when a legacy text batch (task, event, storage-profile or catalog
\* records) holds a record that cannot be normalized, the call still
\* succeeds without a parse error and every other record of the batch that
\* the filters keep appears, normalized, in the result.
C12_BadRecordDroppedAlone ==
  (Done /\ Entered /\ HasLegacyBatch) =>
    /\ result.kind = "ok"
    /\ \A e \in Range(result.outcomes) :
         e.kind \notin {"ParseFailed", "NotAvailable"}
    /\ \A r \in Range(LegacyBatch.recs) :
         (r.attrs /\ KeptAfterNormalizing(r)) =>
           NormalizedBy(r) \in Range(result.records)

\* Source j of the VM tool in flight is a legacy query source.
IsLegacySource(j) == j < Len(Descriptions)

\* C13: in list_vms and search_vms a legacy query source that answers in the
\* text encoding with N records gets a success entry reporting N, and those
\* of its records that pass the filter are in the merged list.
C13_TextHandledLikeStructured ==
  (Done /\ VmTool /\ Entered) =>
    \A j \in 1..Len(resps) :
      (IsLegacySource(j) /\ resps[j].kind = "text") =>
        /\ \E e \in Range(EntriesOf(result.outcomes, Descriptions[j])) :
             e.kind = "items" /\ e.n = Len(resps[j].recs)
        /\ Collects(j) =>
             \A r \in Range(resps[j].recs) :
               PassesFilter(r) => HasName(result.records, r.name)

\* The text forms of a boolean attribute.
BooleanTexts == {<<"true">>, <<"false">>}

\* C14: a boolean attribute (isEnabled of a storage profile, isPublished of
\* a catalog) that is missing or malformed in a legacy record is left unset
\* in the normalized record returned by list_datastores and list_catalogs:
\* it is not given a boolean value.
C14_MissingLeftUnset ==
  (Done /\ result.kind = "ok" /\ HasLegacyBatch
        /\ tool \in {"list_datastores", "list_catalogs"}
        /\ ~mapThrows(LegacyBatch.recs)) =>
    /\ Len(result.records) = Len(LegacyBatch.recs)
    /\ \A i \in 1..Len(result.records) :
         IF tool = "list_datastores"
         THEN LegacyBatch.recs[i].isEnabled \notin BooleanTexts
                => result.records[i].enabled \notin BOOLEAN
         ELSE LegacyBatch.recs[i].isPublished \notin BooleanTexts
                => result.records[i].isPublished \notin BOOLEAN

\* C15: in list_vms and search_vms every source that answered has a success
\* entry whose count is the number of records the source returned, whatever
\* the filter keeps and whatever is merged away as a duplicate.
C15_CountBeforeFilter ==
  (Done /\ VmTool /\ Entered) =>
    \A j \in 1..Len(resps) :
      resps[j].kind # "fail" =>
        \E e \in Range(EntriesOf(result.outcomes, Descriptions[j])) :
          e.kind = "items" /\ e.n = Len(resps[j].recs)

\* The names under which list_tasks reports its two sources.
TaskDescriptions == <<"CloudAPI tasks query", "Legacy API tasks query">>

\* The name under which the tool in flight reports its source j.
SourceName(j) == IF VmTool THEN Descriptions[j] ELSE TaskDescriptions[j]

\* C16: in list_vms, search_vms and list_tasks every source whose request
\* was rejected has a failure entry in the outcome list that carries the
\* status of that rejection.
C16_FailureCarriesStatus ==
  (Done /\ Entered /\ tool \in {"list_vms", "search_vms", "list_tasks"}) =>
    \A j \in 1..Len(resps) :
      resps[j].kind = "fail" =>
        \E e \in Range(result.outcomes) :
          /\ e.src = SourceName(j)
          /\ e.kind = "Failed"
          /\ e.status = resps[j].status

\* A list_vms call whose first source was rejected with an HTTP status and
\* whose last source failed without one has returned.
C16_Witness ==
  /\ Done /\ Entered /\ tool = "list_vms"
  /\ Len(resps) = 3
  /\ resps[1] = Rejected("403")
  /\ resps[2].kind = "json"
  /\ resps[3] = Rejected("error")

\* The filter callback of the VM tool in flight throws on record vm.
FilterThrows(vm) ==
  CASE tool = "list_vms" /\ vm.src # "cloudapi" ->
         ListQueryThrows(vm, args.vappId)
    [] tool = "list_vms" /\ vm.src = "cloudapi" ->
         ListCloudThrows(vm, args.vappId)
    [] tool = "search_vms" /\ vm.src # "cloudapi" ->
         SearchQueryThrows(vm, args.name, args.vdcName)
    [] tool = "search_vms" /\ vm.src = "cloudapi" ->
         SearchCloudThrows(vm, args.name, args.vdcName)

\* The filtered list of source j: the records it returned that pass the
\* filter, in the order returned (nothing when its filter run was aborted
\* or its records are not collected).
FilteredOf(j) ==
  LET items == itemsOf(resps[j])
  IN  IF ~Collects(j) \/ \E r \in Range(items) : FilterThrows(r)
      THEN <<>>
      ELSE SelectSeqWhere(items, {r \in Range(items) : PassesFilter(r)})

RECURSIVE ConcatFiltered(_)
ConcatFiltered(j) ==
  IF j > Len(resps) THEN <<>> ELSE FilteredOf(j) \o ConcatFiltered(j + 1)

\* C17: in list_vms and search_vms the list that is deduplicated is the
\* concatenation, in source order, of the filtered lists of the sources;
\* every name of that list is in the merged list, so a record the filter
\* rejected never suppresses a same-named record of another source that
\* passed it.
C17_FilterBeforeDedup ==
  (Done /\ VmTool /\ result.kind = "ok") =>
    /\ allVms = ConcatFiltered(1)
    /\ \A r \in Range(allVms) : HasName(result.records, r.name)
    /\ \A r \in Range(result.records) : r \in Range(allVms)

\* A call has returned in which an earlier source returned a record the
\* filter rejected and a later source a same-named record that passed and
\* whose name is in the merged list.
C17_Witness ==
  /\ Done /\ VmTool /\ result.kind = "ok"
  /\ \E i, j \in 1..Len(resps) :
       /\ i < j /\ Collects(i) /\ Collects(j)
       /\ \E r \in Range(itemsOf(resps[i])) :
            \E q \in Range(itemsOf(resps[j])) :
              /\ r.name = q.name
              /\ ~PassesFilter(r) /\ ~FilterThrows(r)
              /\ q \in Range(allVms)
              /\ \A k \in 1..Len(result.records) :
                   result.records[k].name = q.name => result.records[k] = q

\* The position at which name n first appears in the concatenated,
\* filtered list.
FirstAppearance(n) ==
  CHOOSE i \in 1..Len(allVms) :
    /\ allVms[i].name = n
    /\ \A j \in 1..(i - 1) : allVms[j].name # n

\* C18: the merged list of list_vms and search_vms keeps the order of first
\* appearance: of two records of the output, the one placed first has the
\* name that appears first in the concatenated, filtered list.
C18_StableOrder ==
  (Done /\ VmTool /\ result.kind = "ok") =>
    \A k, l \in 1..Len(result.records) :
      k < l => FirstAppearance(result.records[k].name)
                 < FirstAppearance(result.records[l].name)

\* A call has returned whose concatenated list repeats a name after
\* another name appeared in between.
C18_Witness ==
  /\ Done /\ VmTool /\ result.kind = "ok"
  /\ Len(result.records) >= 2
  /\ \E i, j, k \in 1..Len(allVms) :
       /\ i < j /\ j < k
       /\ allVms[i].name = allVms[k].name
       /\ allVms[i].name # allVms[j].name

\* C19: a list_vms or search_vms call made with the tool and arguments of
\* an earlier call, against a backend that answers each request as it
\* answered the earlier call, returns the same merged records in the same
\* order and the same outcome list, whatever calls were made in between.
C19_SameResultTwice ==
  (Done /\ Repeats /\ Entered) =>
    /\ result.kind = "ok"
    /\ result.records = prev.result.records
    /\ result.outcomes = prev.result.outcomes

\* A call whose concatenated list held a duplicate and one of whose sources
\* was rejected has been made again, with the same answers, and has returned.
C19_Witness ==
  /\ Done /\ Repeats /\ Entered
  /\ Len(prev.result.records) >= 1
  /\ Len(allVms) > Len(result.records)
  /\ \E e \in Range(result.outcomes) : e.kind = "Failed"

\* The entries source j of the call in flight adds to the outcome list,
\* computed from the response to the call's own request j.
EntriesFrom(j) ==
  IF resps[j].kind = "fail"
  THEN <<[src |-> Descriptions[j], kind |-> "Failed", n |-> 0,
          status |-> resps[j].status]>>
  ELSE LET items == itemsOf(resps[j])
           counted == [src |-> Descriptions[j], kind |-> "items",
                       n |-> Len(items), status |-> ""]
       IN  IF Collects(j) /\ \E r \in Range(items) : FilterThrows(r)
           THEN <<counted, [src |-> Descriptions[j], kind |-> "Failed",
                            n |-> 0, status |-> "error"]>>
           ELSE <<counted>>

RECURSIVE ConcatEntries(_)
ConcatEntries(j) ==
  IF j > Len(resps) THEN <<>> ELSE EntriesFrom(j) \o ConcatEntries(j + 1)

\* C20: the record list and the outcome list returned by a list_vms or
\* search_vms call are those computed from the responses to that call's own
\* requests alone, whatever calls returned before it and whatever a second
\* call, in flight at the same time, has received and collected.
C20_OwnResponsesOnly ==
  (Done /\ VmTool /\ result.kind = "ok") =>
    /\ result.records = uniqueVms(ConcatFiltered(1))
    /\ result.outcomes = ConcatEntries(1)

\* A call has returned records while the second call, in flight between
\* two of its awaits, holds records of its own.
C20_Witness ==
  /\ Done /\ VmTool /\ result.kind = "ok"
  /\ result.records # <<>>
  /\ other.pc = "run" /\ other.step > 1
  /\ other.allVms # <<>>

\* The place of the source of record r in the fixed source order.
SourceIndex(r) ==
  CASE r.src = "vm" -> 1
    [] r.src = "adminVM" -> 2
    [] r.src = "vApp" -> 3
    [] r.src = "cloudapi" -> 4

\* The first n elements of sequence s.
Prefix(s, n) == [i \in 1..n |-> s[i]]

\* C21: in list_vms and search_vms the request to a source is sent only
\* once the response or failure of every earlier source has been recorded,
\* so at most one request is in flight and the sources are queried in the
\* fixed order; the concatenated list is ordered by source, and the record
\* kept for a name is that of the first source, in the fixed order, that
\* contributed the name.
C21_SourceOrderOnly ==
  (VmTool /\ pc \in {"run", "done"}) =>
    /\ Len(resps) + (IF pc = "run" THEN 1 ELSE 0) <= Len(AllRequests)
    /\ HandlerRequests
         = Prefix(AllRequests, Len(resps) + (IF pc = "run" THEN 1 ELSE 0))
    /\ \A i, j \in 1..Len(allVms) :
         i < j => SourceIndex(allVms[i]) <= SourceIndex(allVms[j])
    /\ (pc = "done" /\ result.kind = "ok") =>
         \A k \in 1..Len(result.records) :
           \A a \in Range(allVms) :
             a.name = result.records[k].name
               => SourceIndex(result.records[k]) <= SourceIndex(a)

\* A call has returned in which the Standard VM query and the Admin VM
\* query contributed the same name and the CloudAPI another record.
C21_Witness ==
  /\ Done /\ VmTool /\ result.kind = "ok"
  /\ \E a, b, c \in Range(allVms) :
       /\ a.src = "vm" /\ b.src = "adminVM" /\ c.src = "cloudapi"
       /\ a.name = b.name

\* The records of the concatenated list from position i on that no earlier
\* record of the list matches in name, letter case included.
RECURSIVE NotNamedEarlier(_)
NotNamedEarlier(i) ==
  IF i > Len(allVms) THEN <<>>
  ELSE (IF \E j \in 1..(i - 1) : allVms[j].name = allVms[i].name
        THEN <<>> ELSE <<allVms[i]>>)
         \o NotNamedEarlier(i + 1)

\* C22: deduplication in list_vms and search_vms removes a record exactly
\* when an earlier record of the concatenated list has the identical name,
\* letter case included, whatever the other fields of the two records.
C22_SameNameOnly ==
  (Done /\ VmTool /\ result.kind = "ok") =>
    result.records = NotNamedEarlier(1)

\* A call has returned in which two records of one name but different
\* containers or VDCs were merged and two records whose names differ only
\* in letter case were both kept.
C22_Witness ==
  /\ Done /\ VmTool /\ result.kind = "ok"
  /\ \E i, j \in 1..Len(allVms) :
       /\ i < j
       /\ allVms[i].name = allVms[j].name
       /\ \/ allVms[i].containerName # allVms[j].containerName
          \/ allVms[i].vdcName # allVms[j].vdcName
  /\ \E a, b \in Range(result.records) :
       /\ IsStr(a.name) /\ IsStr(b.name)
       /\ a.name # b.name
       /\ toLowerCase(a.name) = toLowerCase(b.name)

\* The text is a decimal number.
IsDecimal(text) == Len(text) = 2

\* The profiles of the storage response that belong to the VDC of the call
\* in flight and whose two storage attributes are decimal numbers.
WellFormedProfiles ==
  SelectSeqWhere(resps[2].recs,
    {pr \in Range(resps[2].recs) :
       /\ pr.vdcName = resps[1].recs[1].name
       /\ IsDecimal(pr.storageLimitMB)
       /\ IsDecimal(pr.storageUsedMB)})

RECURSIVE SumOf(_, _)
SumOf(profiles, field) ==
  IF profiles = <<>> THEN 0
  ELSE Head(profiles)[field][2] + SumOf(Tail(profiles), field)

\* C23: in get_resource_metrics for a VDC, with a storage response whose
\* records all carry attributes, the call returns a result whose total and
\* used storage are numbers: the sums over the profiles of that VDC whose
\* storageLimitMB and storageUsedMB are both decimal numbers.
C23_MalformedLeftOut ==
  (Done /\ tool = "get_resource_metrics" /\ args.vdcId # Absent
        /\ Len(resps) = 2 /\ resps[2].kind = "text"
        /\ ~mapThrows(resps[2].recs)) =>
    /\ result.kind = "ok"
    /\ result.records[1].totalStorage
         = Number(SumOf(WellFormedProfiles, "storageLimitMB"))
    /\ result.records[1].usedStorage
         = Number(SumOf(WellFormedProfiles, "storageUsedMB"))

\* The result names the failure of an authentication.
NamesAuthFailure(r) ==
  \/ r.message = "Authentication failed"
  \/ /\ r.records # <<>>
     /\ "message" \in DOMAIN r.records[1]
     /\ r.records[1].message = "Authentication failed"

\* The step in which a call of an existing tool starts.
CallStarts == pc = "idle" /\ pc' # "idle" /\ tool' \in KnownTools

\* The step in which the authentication awaited by the call succeeds.
AuthSucceeds ==
  /\ pc = "auth" /\ pc' # "auth"
  /\ ~NamesAuthFailure(result')
  /\ session' \in [set : {TRUE}, token : SessionTokens,
                   expires : {now + SessionTTL}]

\* The step in which the authentication awaited by the call fails.
AuthFails == pc = "auth" /\ pc' # "auth" /\ NamesAuthFailure(result')

\* The step sends a request other than the sessions request.
SendsResourceRequest ==
  /\ Len(requests') > Len(requests)
  /\ requests'[Len(requests')] # SessionsRequest

\* What every step keeps, whichever tools authenticate on entry: the handler
\* is entered only with a session that was valid when the call started or
\* after an authentication of the call has succeeded, resource requests are
\* sent only by an entered handler, and a failed authentication ends the call
\* without a resource request.
GuardedBySession ==
  /\ (pc # "run" /\ pc' = "run") =>
       \/ pc = "idle" /\ ~needsAuthentication
       \/ AuthSucceeds
  /\ SendsResourceRequest => pc' = "run" \/ pc = "run"
  /\ AuthFails => pc' = "done" /\ requests' = <<SessionsRequest>>

\* C24 as stated: every call of a tool requests authentication exactly when
\* no session is stored or the stored one has expired, and sends resource
\* requests only under a session valid at its start or after its own
\* successful authentication.
C24_AuthenticatesExactlyWhenNeeded ==
  [][/\ CallStarts =>
          /\ (pc' = "auth") <=> needsAuthentication
          /\ (pc' = "auth") <=> (requests' = <<SessionsRequest>>)
     /\ GuardedBySession]_vars

\* C24: a call of a tool other than vcd_login requests authentication exactly
\* when no session is stored or the stored session's expiry is not later than
\* the current time (vcd_login requests it on every call); a call sends a
\* resource request only if a non-expired session was stored when it started
\* or its own authentication succeeded, and a call whose authentication
\* fails sends no resource request.
C24_AuthenticatesWhenNeeded ==
  [][/\ CallStarts =>
          /\ (pc' = "auth") <=> (tool' = "vcd_login" \/ needsAuthentication)
          /\ (pc' = "auth") <=> (requests' = <<SessionsRequest>>)
     /\ GuardedBySession]_vars

\* A call that found the session of an earlier call expired has
\* authenticated again and sent its resource request.
C24_Witness ==
  /\ pc = "run" /\ tool = "list_catalogs"
  /\ Len(requests) = 2 /\ requests[1] = SessionsRequest
  /\ now >= SessionTTL
  /\ session.expires = now + SessionTTL
  /\ other.pc = "run" /\ other.resps = <<>>

\* The texts returned after a successful authentication by the tools that
\* return right after it.
SuccessTexts == {LoginText.text, HealthOk(NoSession).text}

\* The step in which the sessions request of the call is rejected: the call
\* ends without the text of a success.
FailedAttempt ==
  /\ pc = "auth" /\ pc' = "done"
  /\ ~(result'.kind = "ok" /\ result'.records[1].text \in SuccessTexts)

\* The step in which the sessions request of the second call is rejected.
OtherFailedAttempt == other.pc = "auth" /\ other'.pc = "done"

\* The error of a call whose authentication failed.
IsAuthenticationError(r) ==
  r.kind = "error" /\ r.message = "Authentication failed"

\* C25 as stated: a failed authentication leaves session and header as
\* they were, and the call that triggered it fails with an 'Authentication
\* failed' error, whichever tool was called.
C25_FailedCallAlwaysFails ==
  [][/\ FailedAttempt =>
          /\ UNCHANGED <<session, authHeader>>
          /\ IsAuthenticationError(result')
     /\ OtherFailedAttempt =>
          /\ UNCHANGED <<session, authHeader>>
          /\ IsAuthenticationError(other'.result)]_vars

\* C25: a failed authentication attempt leaves the stored session and the
\* default Authorization header exactly as they were before the attempt; the
\* tool call that triggered it fails with an 'Authentication failed' error,
\* except a health_check call, which returns the health-check-failed text
\* carrying that message.
C25_FailedAttemptChangesNothing ==
  [][/\ FailedAttempt =>
          /\ UNCHANGED <<session, authHeader>>
          /\ IF tool = "health_check"
             THEN /\ result'.kind = "ok"
                  /\ result'.records =
                       <<[text |-> "Health check failed",
                          message |-> "Authentication failed"]>>
             ELSE IsAuthenticationError(result')
     /\ OtherFailedAttempt =>
          /\ UNCHANGED <<session, authHeader>>
          /\ IsAuthenticationError(other'.result)]_vars

\* A call has failed to authenticate while the session and the header of an
\* earlier authentication are stored.
C25_Witness ==
  /\ pc = "done" /\ IsAuthenticationError(result)
  /\ requests = <<SessionsRequest>>
  /\ session.set /\ authHeader = <<"Bearer", session.token>>

\* C26: in every reachable state, whatever the interleaving of the two calls
\* and their authentications, a stored session goes with the default
\* Authorization header 'Bearer ' followed by the token of that session.
C26_HeaderMatchesSession ==
  session.set => authHeader = <<"Bearer", session.token>>

\* The authentication of the second call has stored a session while the
\* authentication of a list_catalogs call, started without a session, is
\* still in flight.
C26_Witness ==
  /\ session.set /\ session.token = "tok2"
  /\ now = 0
  /\ pc = "auth" /\ tool = "list_catalogs"
  /\ other.pc = "run"

\* C27: while the session is missing or expired, at most one sessions
\* request is in flight: the two calls are never both awaiting their own.
C27_OneLoginInFlight ==
  ~(pc = "auth" /\ other.pc = "auth")

\* The messages of the errors thrown by the handlers.
HandlerMessages ==
  {"Authentication failed", "Failed to list datastores",
   "Failed to list catalogs", "Failed to get resource metrics"}
    \cup {DetailFailure[t] : t \in DetailTools}

\* C28: a call that ends with an error ends with an McpError: a name that is
\* no tool gives MethodNotFound with the dispatcher's own message and no
\* request sent; an error thrown by a handler gives InternalError with
\* 'Tool execution failed: ' before the handler's message.  A call of an
\* unknown name always ends that way.
C28_OnlyMcpErrors ==
  Done =>
    /\ tool \notin KnownTools =>
         /\ result = McpError("MethodNotFound", "Unknown tool")
         /\ requests = <<>>
    /\ (result.kind = "error" /\ tool \in KnownTools) =>
         /\ result.code = "InternalError"
         /\ result.prefix = "Tool execution failed: "
         /\ result.message \in HandlerMessages

\* A call of a name that is no tool has ended with MethodNotFound, after an
\* earlier call had stored a session.
C28_Witness ==
  /\ Done /\ tool = UnknownTool
  /\ result.code = "MethodNotFound"
  /\ session.set

\* The step in which a health_check call ends.
HealthCheckEnds == tool' = "health_check" /\ pc # "done" /\ pc' = "done"

\* C29: a health_check call never ends with an error.  Started under a valid
\* session it returns the connection-OK text at once; otherwise it returns
\* that text when its authentication has stored a new session, and the
\* health-check-failed text, with the session left as it was, when its
\* authentication failed.
C29_HealthCheckNeverFails ==
  [][HealthCheckEnds =>
       /\ result'.kind = "ok"
       /\ IF pc = "idle"
          THEN /\ ~needsAuthentication
               /\ result'.records = <<HealthOk(session)>>
          ELSE \/ /\ result'.records = <<HealthOk(session')>>
                  /\ session'.set /\ session'.expires = now + SessionTTL
               \/ /\ result'.records =
                       <<[text |-> "Health check failed",
                          message |-> "Authentication failed"]>>
                  /\ UNCHANGED <<session, authHeader>>]_vars

\* A health_check call that found the stored session expired has returned
\* the health-check-failed text.
C29_Witness ==
  /\ Done /\ tool = "health_check"
  /\ result.kind = "ok"
  /\ result.records[1].text = "Health check failed"
  /\ session.set /\ session.expires <= now

\* The gateways or networks answered to the first query of the call.
AnsweredGateways == itemsOf(resps[1])

\* The requests of the call after its sessions request, if any.
ResourceRequests == SelectSeqWhere(requests, Range(requests) \ {SessionsRequest})

\* The lines of the result that report a failed detail request.
FailedLines ==
  SelectSeqWhere(result.outcomes,
    {l \in Range(result.outcomes) : l.kind = "failed"})

\* The gateways or networks whose detail request failed, in order.
FailedGateways ==
  LET failedAt == {i \in 1..Len(AnsweredGateways) : resps[i + 1].kind = "fail"}
      RECURSIVE from(_)
      from(i) == IF i > Len(AnsweredGateways) THEN <<>>
                 ELSE (IF i \in failedAt THEN <<AnsweredGateways[i]>> ELSE <<>>)
                        \o from(i + 1)
  IN  from(1)

\* C30: a call of list_firewall_rules, list_nat_rules, list_dhcp_pools or
\* list_ip_allocations whose first query was answered with gateways (or
\* networks) ends with a result, not an error; it has sent, after the first
\* query, exactly one detail request for each of them, in the order of the
\* answer, whichever of these requests failed; and its result has one failure
\* line for each failed one, naming it, in the same order.
C30_EveryGatewayQueried ==
  (Done /\ tool \in DetailTools /\ Len(resps) >= 1
        /\ AnsweredGateways # <<>>) =>
    /\ result.kind = "ok"
    /\ ResourceRequests =
         <<firstRequest(tool, args)>>
           \o [i \in 1..Len(AnsweredGateways) |->
                 DetailRequest(tool, AnsweredGateways[i])]
    /\ Len(resps) = Len(AnsweredGateways) + 1
    /\ [i \in 1..Len(FailedLines) |-> FailedLines[i].name]
         = [i \in 1..Len(FailedGateways) |-> FailedGateways[i].name]

\* A call has ended after the detail request of its first gateway failed and
\* that of its second gateway was answered.
C30_Witness ==
  /\ Done /\ tool = "list_nat_rules"
  /\ Len(resps) = 3
  /\ AnsweredGateways[1] # AnsweredGateways[2]
  /\ resps[2].kind = "fail" /\ resps[3].kind = "json"
  /\ Len(resps[3].recs) = 1

====
